---- MODULE Spec2Model ----
(***************************************************************************)
(* The agent server's orchestration endpoint POST /api/agent/chat          *)
(* (src/README.md, lines 251-498): provider selection, configuration       *)
(* checks, the tool-list fetch, the tool-call loop and its error path.     *)
(* One run of the handler is one behaviour; every await of the handler is  *)
(* a state, every action runs the code from one await to the next.         *)
(***************************************************************************)
EXTENDS Integers, Sequences, FiniteSets, TLC

\* ------------------------------------------------------------------ constants

\* for (let i = 0; i < 6; i++)
MaxIterations == 6

\* raw.slice(0,400)
DetailCap == 400

\* At most this many tool invocations of one run are answered with a failure
\* result (a non-2xx status and a JSON error body).
MaxToolFailures == 1

\* ------------------------------------------------------------------ values

\* JavaScript's undefined / null / a missing property, for string-valued fields.
Undefined == "<undefined>"

\* x || dflt, for a string-valued x
OrElse(x, dflt) == IF x = Undefined \/ x = "" THEN dflt ELSE x

Min(a, b) == IF a < b THEN a ELSE b

\* s.slice(0, n)
Slice(s, n) == SubSeq(s, 1, Min(Len(s), n))

RECURSIVE Repeat(_, _)
\* the string c repeated n times
Repeat(c, n) == IF n = 0 THEN "" ELSE c \o Repeat(c, n - 1)

\* ------------------------------------------------------------------ requests

\* every provider with a chat function takes the tool branch
AllChatProviders == {"openai", "mistral", "deepseek", "anthropic", "gemini", "watsonx"}

\* const openaiCompatProviders = new Set(["openai","mistral","deepseek"])
openaiCompatProviders == {"openai", "mistral", "deepseek"}

\* the provider names the handler branches on, and one it does not know
Providers == openaiCompatProviders \cup {"anthropic", "gemini", "watsonx", "cohere"}

SystemPrompts == {"", "You are a Maximo assistant."}

McpUrls == {"", "http://mcp-server:8081"}

ApiKeys == {"", " ", "sk-key"}

BaseSettings == {"", "https://llm.example/"}

\* req.body.text
text == "list open work orders"

\* settings.maximo?.defaultTenant || settings.maximo_tenant || "default"
tenant == "default"

\* ------------------------------------------------------------------ strings

RECURSIVE TrimLeft(_)
TrimLeft(s) ==
    IF Len(s) > 0 /\ SubSeq(s, 1, 1) = " " THEN TrimLeft(SubSeq(s, 2, Len(s))) ELSE s

RECURSIVE TrimRight(_)
TrimRight(s) ==
    IF Len(s) > 0 /\ SubSeq(s, Len(s), Len(s)) = " "
    THEN TrimRight(SubSeq(s, 1, Len(s) - 1))
    ELSE s

\* String(x).trim()
Trim(s) == TrimRight(TrimLeft(s))

\* s.replace(/\/$/, "")
StripSlash(s) ==
    IF Len(s) > 0 /\ SubSeq(s, Len(s), Len(s)) = "/" THEN SubSeq(s, 1, Len(s) - 1) ELSE s

\* const getKey = (k, envk) => String(secrets?.[k] || process.env[envk] || "").trim()
getKey(setting) == Trim(OrElse(setting, ""))

\* const getBase = (k, envk, defv) => String(... || defv || "").trim().replace(/\/$/,"")
getBase(setting, defv) == StripSlash(Trim(OrElse(setting, OrElse(defv, ""))))

\* provider === "openai" ? "https://api.openai.com" : ""
DefaultBase(p) == IF p = "openai" THEN "https://api.openai.com" ELSE ""

\* ------------------------------------------------------------------ tool descriptors

\* A JSON-schema value: isObject is (x && typeof x === "object").
NoSchema == [isObject |-> FALSE, schema |-> Undefined]
DefaultParameters ==
    [isObject |-> TRUE, schema |-> "{type:object,properties:{},additionalProperties:true}"]

NoFunction == [present |-> FALSE, name |-> "", description |-> Undefined, parameters |-> NoSchema]

\* a registry-native descriptor {name, description, inputSchema}
Native(n, d, sch) ==
    [type |-> Undefined, function |-> NoFunction, name |-> n, description |-> d,
     inputSchema |-> sch]

\* an OpenAI-ready descriptor {type:"function", function:{name, description, parameters}}
Canonical(n, d, params) ==
    [type |-> "function",
     function |-> [present |-> TRUE, name |-> n, description |-> d, parameters |-> params],
     name |-> Undefined, description |-> Undefined, inputSchema |-> NoSchema]

\* only the registry-native form is known
IsOpenAIReadyNever(t) == FALSE

\* if (t && t.type === "function" && t.function && t.function.name)
IsOpenAIReady(t) ==
    t.type = "function" /\ t.function.present /\ OrElse(t.function.name, "") # ""

\* a descriptor without a name is given one
NativeNameOrDefault(t) == OrElse(Trim(OrElse(t.name, "")), "tool")

\* const name = String(t?.name || "").trim()
NativeName(t) == Trim(OrElse(t.name, ""))

\* the schema is passed on as it came
SchemaAsGiven(sch) == sch

\* (s && typeof s === "object") ? s : { type: "object", properties: {}, additionalProperties: true }
SchemaOrDefault(sch) == IF sch.isObject THEN sch ELSE DefaultParameters

RECURSIVE toOpenAITools(_)
\* function toOpenAITools(tools)
toOpenAITools(list) ==
    IF list = <<>> THEN <<>>
    ELSE LET t == Head(list)
             rest == toOpenAITools(Tail(list))
             name == NativeName(t)
         IN  IF IsOpenAIReady(t)
             THEN <<Canonical(t.function.name,
                              OrElse(t.function.description, ""),
                              SchemaOrDefault(t.function.parameters))>> \o rest
             ELSE IF name = "" THEN rest
             ELSE <<Canonical(name,
                              OrElse(t.description, ""),
                              SchemaOrDefault(t.inputSchema))>> \o rest

\* the tool list of the registry server, as GET /mcp/tools declares it
McpTools ==
    << Native("maximo.listOS", "List object structures (/os)",
              [isObject |-> TRUE, schema |-> "{}"]),
       Native("maximo.queryOS", "Query an object structure with OSLC params",
              [isObject |-> TRUE, schema |-> "{os,params}"]),
       Native("maximo.create", "Create record in an OS (POST)",
              [isObject |-> TRUE, schema |-> "{os,body}"]) >>

RECURSIVE mcpToOpenAITools(_)
\* function mcpToOpenAITools(mcpTools): map, then filter(x => x.function.name)
mcpToOpenAITools(list) ==
    IF list = <<>> THEN <<>>
    ELSE LET t == Head(list)
             x == Canonical(OrElse(t.name, ""),
                            OrElse(t.description, ""),
                            SchemaOrDefault(t.inputSchema))
         IN  (IF x.function.name # "" THEN <<x>> ELSE <<>>) \o mcpToOpenAITools(Tail(list))

\* What the answer to GET <mcpUrl>/mcp/tools can be: the fetch rejects, or it
\* resolves with a body that parses or not, holding a tools array or not.
ToolsFetchOutcomes ==
    { [kind |-> "neterr", ok |-> FALSE, parsed |-> FALSE, isArray |-> FALSE, tools |-> <<>>],
      [kind |-> "http", ok |-> TRUE, parsed |-> TRUE, isArray |-> TRUE,
       tools |-> mcpToOpenAITools(McpTools)],
      [kind |-> "http", ok |-> FALSE, parsed |-> TRUE, isArray |-> FALSE, tools |-> <<>>],
      [kind |-> "http", ok |-> FALSE, parsed |-> FALSE, isArray |-> FALSE, tools |-> <<>>] }

\* the longest list of raw descriptors handed to an adapter
MaxTools == 3

\* a schema that is an object, and one that is not (a string)
ObjectSchema == [isObject |-> TRUE, schema |-> "{type:object,properties:{os:{type:string}}}"]
StringSchema == [isObject |-> FALSE, schema |-> "object"]

\* {type:"function", function:{name:""}, name, description, inputSchema}: both forms at once
Hybrid(n, d, sch) == [Native(n, d, sch) EXCEPT !.type = "function", !.function.present = TRUE]

\* the raw descriptors an adapter is handed: registry-native and OpenAI-ready
\* ones, with and without a name, a description and a schema; two of them carry
\* the same name
RawDescriptors ==
    { Native("maximo.listOS", "List object structures (/os)", ObjectSchema),
      Native(" maximo.queryOS ", Undefined, NoSchema),
      Native("", "no name", ObjectSchema),
      Native("  ", "blank name", StringSchema),
      Native(Undefined, Undefined, NoSchema),
      Canonical("maximo.listOS", "List object structures (/os)", ObjectSchema),
      Canonical("maximo.create", Undefined, StringSchema),
      Canonical("", "no name", NoSchema),
      Hybrid("maximo.queryOS", "Query an object structure", NoSchema) }

RECURSIVE RawLists(_)
\* the lists of at most n raw descriptors
RawLists(n) ==
    IF n = 0 THEN { <<>> }
    ELSE RawLists(n - 1)
         \cup { Append(l, t) : l \in { r \in RawLists(n - 1) : Len(r) = n - 1 },
                               t \in RawDescriptors }

\* ------------------------------------------------------------------ provider replies

\* a tool call of a provider reply: {id, function: {name, arguments}}
tcList == [id |-> "call_1", name |-> "maximo.listOS", arguments |-> Undefined]
tcQuery == [id |-> "call_2", name |-> "maximo.queryOS", arguments |-> "{\"os\":\"MXWO\"}"]
tcBad == [id |-> "call_3", name |-> "maximo.create", arguments |-> "{os:"]

\* choices[0].message of a reply; a missing message is {}
NoMessage == [present |-> FALSE, content |-> Undefined, tool_calls |-> <<>>]
Message(c, calls) == [present |-> TRUE, content |-> c, tool_calls |-> calls]

\* the messages a provider answers with: final answers, and requests for tools
FinalMessages == { Message(" There are 5 open work orders.\n", <<>>), Message(Undefined, <<>>) }
ToolMessages  == { Message(Undefined, <<tcList>>), Message("Let me check.", <<tcQuery, tcBad>>) }

\* the parsed body j: null when it was not parsed
NullJson == [parsed |-> FALSE, message |-> NoMessage, errmsg |-> Undefined,
             blocks |-> <<>>, generated_text |-> Undefined, str |-> Undefined]
ChatJson(m) == [NullJson EXCEPT !.parsed = TRUE, !.message = m, !.str = "{\"choices\":[...]}"]
ErrorJson(e) == [NullJson EXCEPT !.parsed = TRUE, !.errmsg = e, !.str = "{\"error\":{...}}"]
TextJson(b, g) ==
    [NullJson EXCEPT !.parsed = TRUE, !.blocks = b, !.generated_text = g, !.str = "{...}"]

NetErrMsg == "request to provider failed, reason: connect ECONNREFUSED"

\* fetch rejected
NetErr == [kind |-> "neterr", ok |-> FALSE, status |-> 0, ct |-> "", raw |-> "",
           json |-> NullJson]
\* fetch resolved: r.ok, r.status, the content-type header, the body text, and
\* what JSON.parse makes of the body text (json.parsed = FALSE: it throws)
Http(st, c, body, j) ==
    [kind |-> "http", ok |-> (st >= 200 /\ st < 300), status |-> st, ct |-> c, raw |-> body,
     json |-> j]

LongBody == Repeat("<html>", 70)

\* what a chat-completion request can end with
FailedOutcomes ==
    { NetErr,
      Http(429, "application/json", "{\"error\":{\"message\":\"Rate limit reached\"}}",
           ErrorJson("Rate limit reached")),
      Http(401, "application/json; charset=utf-8", "{\"error\":{\"message\":\"...\"}}",
           ErrorJson(Repeat("invalid key ", 40))),
      Http(400, "application/json", "{\"error\":\"bad request\"}", ErrorJson(Undefined)),
      Http(503, "text/html", LongBody, NullJson),
      Http(502, "", "", NullJson) }

UnparsedOutcomes ==
    { Http(200, "application/json", "{\"choices\":[{\"mess", NullJson),
      Http(200, "text/plain", "{\"choices\":[...]}", ChatJson(Message("unread", <<>>))) }

FinalOutcomes ==
    { Http(200, "application/json", "{\"choices\":[...]}", ChatJson(m)) : m \in FinalMessages }

ToolOutcomes ==
    { Http(200, "application/json", "{\"choices\":[...]}", ChatJson(m)) : m \in ToolMessages }

\* what the one request of a plain chat can end with
ChatOutcomes == FailedOutcomes \cup UnparsedOutcomes \cup FinalOutcomes \cup ToolOutcomes

\* what a request of the tool-call loop can end with
LoopOutcomes ==
    { NetErr, Http(503, "text/html", LongBody, NullJson),
      Http(200, "application/json", "{\"choices\":[{\"mess", NullJson) }
    \cup FinalOutcomes \cup ToolOutcomes

\* const ct = ...toLowerCase(); ct.includes("application/json")
IsJsonType(ct) == \E k \in 1..(Len(ct) - 15) : SubSeq(ct, k, k + 15) = "application/json"

\* let j = null; if (ct.includes("application/json")) { try { j = JSON.parse(raw) } catch { j = null } }
ParsedBody(o) == IF IsJsonType(o.ct) /\ o.json.parsed THEN o.json ELSE NullJson

\* the raw body is not cut
ErrorTextUncut(o, j) == OrElse(j.errmsg, o.raw)

\* j?.error?.message || raw.slice(0,400)
ErrorText(o, j) == OrElse(j.errmsg, Slice(o.raw, DetailCap))

\* async function openaiCompatChat: [threw, message of the error, j]
openaiCompatChat(o) ==
    IF o.kind = "neterr" THEN [threw |-> TRUE, errmsg |-> NetErrMsg, j |-> NullJson]
    ELSE LET j == ParsedBody(o)
         IN  IF ~o.ok
             THEN [threw |-> TRUE, errmsg |-> ErrorText(o, j), j |-> NullJson]
             ELSE [threw |-> FALSE, errmsg |-> "", j |-> j]

\* the content is trimmed, as the request's text is
MessageContentTrimmed(msg) == Trim(OrElse(msg.content, ""))

\* const content = msg?.content || ""
MessageContent(msg) == OrElse(msg.content, "")

\* String(e?.message || e), e being new Error(message)
ErrorDetail(message) == OrElse(message, "Error")

\* ------------------------------------------------------------------ tool invocations

\* JSON.parse of the arguments string of a tool call: [threw, value]
JsonParse(s) ==
    CASE s = "{}" -> [threw |-> FALSE, value |-> [os |-> Undefined, raw |-> Undefined]]
      [] s = "{\"os\":\"MXWO\"}" -> [threw |-> FALSE, value |-> [os |-> "MXWO", raw |-> Undefined]]
      [] OTHER -> [threw |-> TRUE, value |-> [os |-> Undefined, raw |-> Undefined]]

\* a parse failure leaves args = {}
ParseArgsEmpty(argsStr) == JsonParse(argsStr).value

\* let args = {}; try { args = JSON.parse(argsStr) } catch { args = { raw: argsStr } }
ParseArgs(argsStr) ==
    IF JsonParse(argsStr).threw THEN [os |-> Undefined, raw |-> argsStr]
    ELSE JsonParse(argsStr).value

\* the body of POST <mcpUrl>/mcp/call for the tool call c: { name, args, tenant }
CallRequest(c) ==
    [name |-> c.name, args |-> ParseArgs(OrElse(c.arguments, "{}")), tenant |-> tenant]

NoCallRequest == [name |-> Undefined, args |-> ParseArgs("{}"), tenant |-> Undefined]

\* the JSON bodies /mcp/call answers with
OkBody == [member |-> "[{\"wonum\":\"1001\"}]", error |-> Undefined, detail |-> Undefined]
McpFailed == [member |-> Undefined, error |-> "mcp_failed", detail |-> "FetchError: ETIMEDOUT"]
NoBody == [member |-> Undefined, error |-> Undefined, detail |-> Undefined]

\* JSON.stringify of such a body
JsonStringify(b) ==
    "{" \o (IF b.member # Undefined THEN "\"member\":" \o b.member ELSE "")
        \o (IF b.error # Undefined THEN "\"error\":\"" \o b.error \o "\"" ELSE "")
        \o (IF b.detail # Undefined THEN ",\"detail\":\"" \o b.detail \o "\"" ELSE "")
        \o "}"

\* what a POST /mcp/call can end with: the fetch rejects; or it resolves with a
\* status and a body that callResp.json() parses (isJson) or throws on
CallNetErr == [kind |-> "neterr", status |-> 0, isJson |-> FALSE, body |-> NoBody]
NoResult == [kind |-> "none", status |-> 0, isJson |-> FALSE, body |-> NoBody]
CallOutcomes ==
    { CallNetErr,
      [kind |-> "http", status |-> 200, isJson |-> TRUE, body |-> OkBody],
      [kind |-> "http", status |-> 502, isJson |-> TRUE, body |-> McpFailed],
      [kind |-> "http", status |-> 500, isJson |-> FALSE, body |-> NoBody] }

\* a non-2xx answer of the registry is thrown, as a provider's is
CallThrowsOnStatus(o) ==
    o.kind = "neterr" \/ ~o.isJson \/ ~(o.status >= 200 /\ o.status < 300)

\* await fetch(`${mcpUrl}/mcp/call`, ...) rejects, or await callResp.json() does
CallThrows(o) == o.kind = "neterr" \/ ~o.isJson

\* the message of the error thrown
CallError(o) == IF o.kind = "neterr" THEN NetErrMsg ELSE "invalid json response body"

\* a failure result: the registry answered with a non-2xx status and a JSON error body
IsFailureResult(o) == o.kind = "http" /\ o.isJson /\ ~(o.status >= 200 /\ o.status < 300)

\* ------------------------------------------------------------------ other providers

RECURSIVE JoinLines(_)
\* xs.filter(Boolean).join("\n")
JoinLines(xs) ==
    IF xs = <<>> THEN ""
    ELSE LET rest == JoinLines(Tail(xs))
         IN  IF Head(xs) = Undefined \/ Head(xs) = "" THEN rest
             ELSE IF rest = "" THEN Head(xs)
             ELSE Head(xs) \o "\n" \o rest

\* what a request to anthropic, gemini or watsonx can end with
TextOutcomes ==
    { NetErr,
      Http(500, "application/json", "{\"error\":{\"message\":\"overloaded\"}}",
           ErrorJson("overloaded")),
      Http(403, "text/html", LongBody, NullJson),
      Http(200, "application/json", "{...}", TextJson(<<"Hello", Undefined, "there">>, "Hi")),
      Http(200, "text/html", "<html>", NullJson) }

\* anthropicChat, geminiChat, watsonxChat after the fetch: [threw, errmsg, reply]
otherChat(p, o) ==
    IF o.kind = "neterr" THEN [threw |-> TRUE, errmsg |-> NetErrMsg, reply |-> ""]
    ELSE LET j == ParsedBody(o)
         IN  IF ~o.ok
             THEN [threw |-> TRUE,
                   errmsg |-> CASE p = "anthropic" -> OrElse(j.errmsg, Slice(o.raw, DetailCap))
                                [] p = "gemini" ->
                                     IF j.parsed THEN OrElse(Slice(j.str, DetailCap),
                                                             Slice(o.raw, DetailCap))
                                     ELSE Slice(o.raw, DetailCap)
                                [] OTHER -> Slice(o.raw, DetailCap),
                   reply |-> ""]
             ELSE [threw |-> FALSE, errmsg |-> "",
                   reply |-> IF p = "watsonx" THEN OrElse(j.generated_text, "")
                             ELSE JoinLines(j.blocks)]

\* ------------------------------------------------------------------ trace buffer

\* const LOG_MAX = Number(process.env.LOG_MAX || 500): the capacity the server runs with
LOG_MAX == 3

\* req.query.limit || 200
DefaultLimit == 200

\* events handed to pushLog in one behaviour, and GET /api/logs requests answered
MaxAppends == 5
MaxReads == 2

\* { ts: Date.now(), kind, tenant, meta, payload }; the time stamp is left out
Event(kind, payload) == [kind |-> kind, tenant |-> tenant, payload |-> payload]

\* the newest event is dropped
EvictNewest(buf) == IF Len(buf) > LOG_MAX THEN SubSeq(buf, 1, LOG_MAX) ELSE buf

RECURSIVE Evict(_)
\* while (_log.length > LOG_MAX) _log.shift()
Evict(buf) == IF Len(buf) > LOG_MAX THEN Evict(Tail(buf)) ELSE buf

\* function pushLog(kind, payload, meta, tenant)
pushLog(buf, ev) == Evict(Append(buf, ev))

\* the values of the query parameter limit: absent, or a string
Limits == {Undefined, "", "0", "1", "2", "4", "500", "all"}

NaN == [nan |-> TRUE, n |-> 0]
Num(n) == [nan |-> FALSE, n |-> n]

\* Number(x), for the strings above and the number 200
Number(x) ==
    CASE x = "0" -> Num(0)
      [] x = "1" -> Num(1)
      [] x = "2" -> Num(2)
      [] x = "4" -> Num(4)
      [] x = "200" -> Num(DefaultLimit)
      [] x = "500" -> Num(500)
      [] OTHER -> NaN

\* const limit = Math.min(Number(req.query.limit || 200), LOG_MAX): NaN if the number is
Limit(q) ==
    LET x == Number(OrElse(q, "200"))
    IN  IF x.nan THEN NaN ELSE Num(Min(x.n, LOG_MAX))

\* buf.slice(-k): -NaN is NaN and -0 is 0, and both slice from the start
SliceLast(buf, k) ==
    IF k.nan \/ k.n = 0 THEN buf
    ELSE IF k.n > 0 THEN SubSeq(buf, Len(buf) - Min(k.n, Len(buf)) + 1, Len(buf))
    ELSE SubSeq(buf, Min(0 - k.n, Len(buf)) + 1, Len(buf))

\* ------------------------------------------------------------------ registry server

\* POST /mcp/call requests handled in one behaviour
MaxCalls == 1

\* s ends with suf
EndsWith(s, suf) == Len(s) >= Len(suf) /\ SubSeq(s, Len(s) - Len(suf) + 1, Len(s)) = suf

\* function mkBaseApi(base): null is Undefined
mkBaseApi(b0) ==
    IF OrElse(b0, "") = "" THEN Undefined
    ELSE LET b == StripSlash(b0)
         IN  IF EndsWith(b, "/api") \/ EndsWith(b, "/api/") THEN b
             ELSE IF EndsWith(b, "/maximo") \/ EndsWith(b, "/maximo/") THEN b \o "/api"
             ELSE b \o "/maximo/api"

\* a tenant of the registry: { baseUrl, apiKey, ... }
Tenant(url, key) == [baseUrl |-> url, apiKey |-> key]

\* what loadTenants() returns: the default tenant of the environment, or TENANTS_JSON
EnvTenants == [default |-> Tenant("https://maximo.example/maximo", "key-default")]
TenantRegistries ==
    { EnvTenants,
      [default |-> Tenant(Undefined, Undefined)],
      [default |-> Tenant("https://maximo.example/maximo", "key-default"),
       acme |-> Tenant("https://acme.example/maximo/api/", "key-acme")],
      [acme |-> Tenant("https://acme.example", "key-acme")] }

\* the tenant is used whether it has a baseUrl or not
tenantOrDefault(reg, tenantId) ==
    LET t == IF tenantId \in DOMAIN reg THEN reg[tenantId]
             ELSE IF "default" \in DOMAIN reg THEN reg["default"]
             ELSE Tenant(Undefined, Undefined)
    IN  [threw |-> FALSE, error |-> Undefined, api |-> mkBaseApi(t.baseUrl),
         apiKey |-> OrElse(t.apiKey, "")]

\* a tenant id that is not in the registry is refused
tenantOrThrowStrict(reg, tenantId) ==
    LET t == IF tenantId \in DOMAIN reg THEN reg[tenantId] ELSE Tenant(Undefined, Undefined)
    IN  IF OrElse(t.baseUrl, "") = ""
        THEN [threw |-> TRUE, error |-> "Error: Tenant is not configured: " \o tenantId,
              api |-> Undefined, apiKey |-> Undefined]
        ELSE [threw |-> FALSE, error |-> Undefined, api |-> mkBaseApi(t.baseUrl),
              apiKey |-> OrElse(t.apiKey, "")]

\* function tenantOrThrow(tenantId): [threw, the error as String(e) gives it, t]
tenantOrThrow(reg, tenantId) ==
    LET t == IF tenantId \in DOMAIN reg THEN reg[tenantId]
             ELSE IF "default" \in DOMAIN reg THEN reg["default"]
             ELSE Tenant(Undefined, Undefined)
        api == mkBaseApi(t.baseUrl)
    IN  IF OrElse(t.baseUrl, "") = ""
        THEN [threw |-> TRUE, error |-> "Error: Tenant is not configured: " \o tenantId,
              api |-> Undefined, apiKey |-> Undefined]
        ELSE [threw |-> FALSE, error |-> Undefined, api |-> api, apiKey |-> OrElse(t.apiKey, "")]

\* body.args: { os, payload, body, tenant }
Args(os, payload, bdy, tn) == [os |-> os, payload |-> payload, body |-> bdy, tenant |-> tn]

NoArgs == Args(Undefined, Undefined, Undefined, Undefined)

\* req.body of POST /mcp/call: { tool, name, args, tenant }
McpRequest(tl, nm, args, tn) == [tool |-> tl, name |-> nm, args |-> args, tenant |-> tn]

NoMcpRequest == McpRequest(Undefined, Undefined, NoArgs, Undefined)

\* a record to create, as JSON text
Record == "{\"description\":\"Pump repair\"}"

\* the requests the registry server is sent
McpRequests ==
    { McpRequest(Undefined, nm, NoArgs, tn) :
        nm \in {"maximo.listOS", "maximo.delete"}, tn \in {Undefined, "acme", "ghost"} }
    \cup { McpRequest(Undefined, "maximo.queryOS", Args(os, Undefined, Undefined, Undefined), tn) :
             os \in {Undefined, "MXWO"}, tn \in {Undefined, "acme", "ghost"} }
    \cup { McpRequest(Undefined, "maximo.create", Args(os, pl[1], pl[2], Undefined), tn) :
             os \in {Undefined, "MXWO"},
             pl \in {<<Record, Undefined>>, <<Undefined, Record>>, <<Undefined, Undefined>>},
             tn \in {Undefined, "acme"} }
    \cup { McpRequest("maximo.listOS", "maximo.create", NoArgs, Undefined),
           McpRequest(Undefined, "maximo.listOS", Args(Undefined, Undefined, Undefined, "acme"),
                      Undefined),
           NoMcpRequest }

\* the request the handler sends to Maximo
MaximoRequest(method, url, key, bdy) ==
    [method |-> method, url |-> url, apikey |-> key, body |-> bdy]

NoMaximoRequest == MaximoRequest(Undefined, Undefined, Undefined, Undefined)

\* what the handler answers: res.status(..).json(..) or res.status(..).type(..).send(..)
McpResponse(st, ct, bdy, err, dt) ==
    [status |-> st, type |-> ct, body |-> bdy, error |-> err, detail |-> dt, tool |-> Undefined]

NoMcpResponse == McpResponse(0, Undefined, Undefined, Undefined, Undefined)

\* what the request to Maximo can end with: the fetch rejects, or it resolves with
\* a status, a content type and a body that JSON.parse accepts (isJson) or not
MaximoOutcomes ==
    { [kind |-> "neterr", status |-> 0, ct |-> Undefined, raw |-> "", isJson |-> FALSE],
      [kind |-> "http", status |-> 200, ct |-> "application/json",
       raw |-> "{\"member\":[]}", isJson |-> TRUE],
      [kind |-> "http", status |-> 404, ct |-> Undefined,
       raw |-> "{\"Error\":{\"reasonCode\":\"BMXAA8727E\"}}", isJson |-> TRUE],
      [kind |-> "http", status |-> 503, ct |-> "text/html", raw |-> "<html>", isJson |-> FALSE] }

\* ------------------------------------------------------------------ gateway server

\* const REQUEST_TIMEOUT_MS = parseInt(process.env.REQUEST_TIMEOUT_MS || "60000", 10)
REQUEST_TIMEOUT_MS == 60000

\* calls of mcpInvoke in one behaviour
MaxInvokes == 3

\* messages sent from ChatPage in one behaviour
MaxSends == 3

\* the timer is cleared only when the call succeeds
cancelOnSuccess(timer, o) ==
    [timer EXCEPT !.state = IF o.kind = "timeout" THEN "fired"
                            ELSE IF o.kind = "http" /\ o.ok THEN "cleared" ELSE @]

\* finally { cancel() }: clearTimeout(t), unless the timer has fired and
\* aborted the fetch
cancel(timer, o) ==
    [timer EXCEPT !.state = IF o.kind = "timeout" THEN "fired" ELSE "cleared"]

\* function toAbortSignal(timeoutMs): the timer set, with its delay
toAbortSignal(timeoutMs) == [state |-> "pending", ms |-> timeoutMs]

\* ------------------------------------------------------------------ settings

\* some keys of the settings object, with the environment variable behind each
SettingKeys == {"mcp_url", "openai_key", "maximo_tenant"}

\* function envSettings()
envSettings(env) ==
    [k \in SettingKeys |-> IF k = "maximo_tenant" THEN OrElse(env[k], "default") ELSE env[k]]

\* ------------------------------------------------------------------ state

VARIABLES
    provider,      \* req.body.provider, lower-cased
    system,        \* req.body.system, trimmed
    enableTools,   \* !!settings.mcp.enableTools
    mcpUrl,        \* settings.mcp.url, trimmed
    apiKey,        \* the key of the selected provider, once read
    base,          \* the base URL of the selected provider, once read
    messages,      \* the conversation openaiCompatChat sends
    loopMessages,  \* the conversation the loop appends to
    tools,         \* the adapted tool descriptors
    i,             \* the loop counter
    toolCalls,     \* the tool calls of the reply being executed
    tc,            \* the position in toolCalls of the call in flight (0: none)
    pc,            \* where the handler is suspended
    response,      \* what res.json sent
    responses,     \* how many times a response was sent
    chatReqs,      \* provider requests issued
    toolsReqs,     \* GET /mcp/tools requests issued
    callReqs,      \* POST /mcp/call requests issued
    lastChat,      \* the body of the last provider request
    lastCall,      \* the body of the last POST /mcp/call
    lastOut,       \* what the last provider request ended with
    lastResult,    \* what the last POST /mcp/call ended with
    toolsFetched,  \* how GET /mcp/tools ended: "rejected", "failed" (non-2xx or
                   \* unparseable) or "ok"; "none" before
    toolReplies,   \* provider replies received that held at least one tool call
    failures,      \* tool invocations answered with a failure result
    thrown,        \* the outbound call whose failure reached the catch block
    aborted        \* the inbound request was cancelled by its client

\* the tool schema adapters, applied to a list of raw descriptors
VARIABLES
    rawTools,      \* the list handed to an adapter
    adapted,       \* toOpenAITools(rawTools)
    readapted,     \* toOpenAITools(adapted)
    listed,        \* mcpToOpenAITools(rawTools)
    adapterPc      \* which adapters have run

\* the trace buffer of the registry server
VARIABLES
    log,           \* _log
    appended,      \* every event handed to pushLog so far, in order
    logsLimit,     \* req.query.limit of the last GET /api/logs
    logsOut,       \* the events the last GET /api/logs answered with
    reads,         \* GET /api/logs requests answered
    running        \* a call of pushLog has pushed its event and not returned yet

\* POST /mcp/call of the registry server
VARIABLES
    tenants,       \* what loadTenants() returns
    mcpPc,         \* where the handler is suspended
    mcpReq,        \* req.body
    mcpRes,        \* what the handler answered last
    maximoReq,     \* the last request sent to Maximo
    maximoReqs,    \* requests sent to Maximo
    mcpCalls,      \* POST /mcp/call requests received
    mcpAnswers,    \* responses sent to them
    maximoOut      \* what the last request to Maximo ended with

\* mcpInvoke of the gateway server
VARIABLES
    gwPc,          \* where mcpInvoke is suspended
    gwReq,         \* { tool, input }, the body of the last invoke request sent
    gwTimer,       \* the timer of toAbortSignal: "none", "pending", "fired" or "cleared"
    gwOut,         \* how the last call of mcpInvoke ended
    gwCalls,       \* calls of mcpInvoke
    gwIn,          \* the last request to POST /chat or POST /tools/call
    gwRes,         \* the response to it: status 0 while there is none
    gwSent         \* where its outbound request went: "none", "mcp", "openai" or "gemini"

\* the settings of the agent server
VARIABLES
    envVars,       \* process.env
    fileSettings,  \* the content of SETTINGS_FILE
    merged         \* what the last GET /api/settings answered with

\* ChatPage of the chat UI
VARIABLES
    uiInput,       \* the text of the input field
    uiBusy,        \* the busy flag
    uiMessages,    \* the messages shown: { role, text }
    uiInFlight     \* the texts of the chat requests not yet settled, oldest first

handlerVars ==
        << provider, system, enableTools, mcpUrl, apiKey, base, messages, loopMessages,
           tools, i, toolCalls, tc, pc, response, responses, chatReqs, toolsReqs,
           callReqs, lastChat, lastCall, lastOut, lastResult, toolsFetched, toolReplies, failures,
           thrown, aborted >>

adapterVars == << rawTools, adapted, readapted, listed, adapterPc >>

traceVars == << log, appended, logsLimit, logsOut, reads, running >>

registryVars ==
    << tenants, mcpPc, mcpReq, mcpRes, maximoReq, maximoReqs, mcpCalls, mcpAnswers, maximoOut >>

gatewayVars == << gwPc, gwReq, gwTimer, gwOut, gwCalls, gwIn, gwRes, gwSent >>

settingsVars == << envVars, fileSettings, merged >>

\* the state of ChatPage
uiVars == << uiInput, uiBusy, uiMessages, uiInFlight >>

vars ==
    << handlerVars, adapterVars, traceVars, registryVars, gatewayVars, settingsVars, uiVars >>

\* a conversation message
Msg(role, content, calls, id) ==
    [role |-> role, content |-> content, tool_calls |-> calls, tool_call_id |-> id]

NoResponse == [status |-> 0]
Reply(r) == [status |-> 200, reply |-> r]
Failure(st, e, d) == [status |-> st, error |-> e, detail |-> d]

\* tools and tool_choice are sent whatever the list holds
ChatRequestAlwaysTools(msgs, tls) ==
    [messages |-> msgs, has_tools |-> TRUE, tools |-> tls, tool_choice |-> "auto"]

\* JSON.stringify({ model, temperature, messages, tools, tool_choice }):
\* a field whose value is undefined is left out (has_tools = FALSE)
ChatRequest(msgs, tls) ==
    [messages |-> msgs, has_tools |-> Len(tls) > 0, tools |-> tls,
     tool_choice |-> IF Len(tls) > 0 THEN "auto" ELSE Undefined]

NoChatRequest == [messages |-> <<>>, has_tools |-> FALSE, tools |-> <<>>,
                  tool_choice |-> Undefined]

\* the system prompt is left out of the conversation
InitialMessagesUserOnly(sys) == <<Msg("user", text, <<>>, Undefined)>>

\* const messages = []; if (system) messages.push(system message); messages.push(user message)
InitialMessages(sys) ==
    (IF sys # "" THEN <<Msg("system", sys, <<>>, Undefined)>> ELSE <<>>)
    \o <<Msg("user", text, <<>>, Undefined)>>

\* no adapter has been applied
AdapterIdle ==
    /\ rawTools = <<>>
    /\ adapted = <<>>
    /\ readapted = <<>>
    /\ listed = <<>>
    /\ adapterPc = "idle"

\* const _log = []
TraceIdle ==
    /\ log = <<>>
    /\ appended = <<>>
    /\ logsLimit = Undefined
    /\ logsOut = <<>>
    /\ reads = 0
    /\ running = FALSE

\* no POST /mcp/call has been received
RegistryStart ==
    /\ mcpPc = "idle"
    /\ mcpReq = NoMcpRequest
    /\ mcpRes = NoMcpResponse
    /\ maximoReq = NoMaximoRequest
    /\ maximoReqs = 0
    /\ mcpCalls = 0
    /\ mcpAnswers = 0
    /\ maximoOut = [kind |-> "none", status |-> 0, ct |-> Undefined, raw |-> "", isJson |-> FALSE]

RegistryIdle == tenants = EnvTenants /\ RegistryStart

\* mcpInvoke has not been called
GatewayIdle ==
    /\ gwPc = "idle"
    /\ gwReq = [tool |-> Undefined, input |-> Undefined]
    /\ gwTimer = [state |-> "none", ms |-> 0]
    /\ gwOut = [threw |-> FALSE, message |-> Undefined, value |-> Undefined]
    /\ gwCalls = 0
    /\ gwIn = [route |-> Undefined, message |-> Undefined, name |-> Undefined,
               args |-> [type |-> "undefined", tool |-> Undefined, input |-> Undefined]]
    /\ gwRes = [status |-> 0, error |-> Undefined, body |-> Undefined]
    /\ gwSent = "none"

\* no environment variable is set and there is no settings file
SettingsIdle ==
    /\ envVars = [k \in SettingKeys |-> Undefined]
    /\ fileSettings = [k \in SettingKeys |-> Undefined]
    /\ merged = [k \in SettingKeys |-> Undefined]

\* useState(''), useState(false), useState([]): ChatPage as first rendered
UiIdle ==
    /\ uiInput = ""
    /\ uiBusy = FALSE
    /\ uiMessages = <<>>
    /\ uiInFlight = <<>>

\* the handler's locals before the request is read
HandlerStart ==
    /\ apiKey = Undefined
    /\ base = Undefined
    /\ loopMessages = <<>>
    /\ tools = <<>>
    /\ i = 0
    /\ toolCalls = <<>>
    /\ tc = 0
    /\ pc = "start"
    /\ response = NoResponse
    /\ responses = 0
    /\ chatReqs = 0
    /\ toolsReqs = 0
    /\ callReqs = 0
    /\ lastChat = NoChatRequest
    /\ lastCall = NoCallRequest
    /\ lastOut = NetErr
    /\ lastResult = NoResult
    /\ toolsFetched = "none"
    /\ toolReplies = 0
    /\ failures = 0
    /\ thrown = "none"
    /\ aborted = FALSE

\* no request to POST /api/agent/chat is being handled
HandlerIdle ==
    /\ provider = "openai"
    /\ system = ""
    /\ enableTools = FALSE
    /\ mcpUrl = ""
    /\ messages = InitialMessages("")
    /\ HandlerStart

Init ==
    /\ provider \in Providers
    /\ system \in SystemPrompts
    /\ enableTools \in BOOLEAN
    /\ mcpUrl \in McpUrls
    /\ messages = InitialMessages(system)
    /\ HandlerStart
    /\ AdapterIdle
    /\ TraceIdle
    /\ RegistryIdle
    /\ GatewayIdle
    /\ SettingsIdle
    /\ UiIdle

\* ------------------------------------------------------------------ the handler

reqVars == << provider, system, enableTools, mcpUrl >>

\* return res.status(..).json(..)
Respond(r) ==
    /\ response' = r
    /\ responses' = responses + 1
    /\ pc' = "done"

\* the exception is swallowed: the handler ends without a response
CatchSilent(which, message) ==
    /\ thrown' = which
    /\ pc' = "done"
    /\ UNCHANGED << response, responses >>

\* catch (e) { return res.status(500).json({ error:"agent_failed", detail:String(e?.message || e) }) }
Catch(which, message) ==
    /\ thrown' = which
    /\ Respond(Failure(500, "agent_failed", ErrorDetail(message)))

\* the request is built from the conversation as it was before the tool calls
SendChatStale(msgs, tls) ==
    /\ chatReqs' = chatReqs + 1
    /\ lastChat' = ChatRequest(messages, tls)

\* the fetch of openaiCompatChat leaves
SendChat(msgs, tls) ==
    /\ chatReqs' = chatReqs + 1
    /\ lastChat' = ChatRequest(msgs, tls)

\* the call is posted a second time
SendCallTwice(c) ==
    /\ callReqs' = callReqs + 2
    /\ lastCall' = CallRequest(c)

\* the fetch of POST /mcp/call leaves
SendCall(c) ==
    /\ callReqs' = callReqs + 1
    /\ lastCall' = CallRequest(c)

\* the enableTools flag is not looked at
ToolsOffByUrl == mcpUrl = ""

\* the registry URL is not looked at
ToolsOffByFlag == ~enableTools

\* if (!(enableTools && mcpUrl)): plain chat
ToolsOff == ~(enableTools /\ mcpUrl # "")

\* the key is checked in the OpenAI-compatible branch only
KeyMissingCompatOnly(p, key) == p \in openaiCompatProviders /\ key = ""

\* if (!apiKey) return res.status(400).json({ error:"missing_api_key", ... })
KeyMissing(p, key) == key = ""

\* i < 5
LoopStopsEarly(n) == n < MaxIterations - 1

\* i <= 6
LoopContinuesInclusive(n) == n <= MaxIterations

\* for (let i = 0; i < 6; i++)
LoopContinues(n) == n < MaxIterations

\* the tool message is tied to the tool's name
ToolMessageByName(call, body) == Msg("tool", JsonStringify(body), <<>>, call.name)

\* loopMessages.push({ role:"tool", tool_call_id: tc.id, content: JSON.stringify(callJson) })
ToolMessage(call, body) == Msg("tool", JsonStringify(body), <<>>, call.id)

\* return res.json({ reply: "Tool orchestration exceeded max iterations." })
Exceeded == Reply("Tool orchestration exceeded max iterations.")

\* if (openaiCompatProviders.has(provider)) { ... up to the first await
CompatConfig(k, b) ==
    /\ pc = "start"
    /\ provider \in openaiCompatProviders
    /\ LET key == getKey(k)
           bs == getBase(b, DefaultBase(provider))
       IN  /\ apiKey' = key
           /\ base' = bs
           /\ IF KeyMissing(provider, key)
              THEN /\ Respond(Failure(400, "missing_api_key",
                                      "Missing " \o provider \o " API key"))
                   /\ UNCHANGED << chatReqs, lastChat, toolsReqs >>
              ELSE IF bs = ""
              THEN /\ Respond(Failure(400, "missing_base",
                                      "Missing " \o provider \o " base URL"))
                   /\ UNCHANGED << chatReqs, lastChat, toolsReqs >>
              ELSE IF ToolsOff
              THEN /\ pc' = "plain"
                   /\ SendChat(messages, <<>>)
                   /\ UNCHANGED << response, responses, toolsReqs >>
              ELSE /\ pc' = "tools"
                   /\ toolsReqs' = toolsReqs + 1
                   /\ UNCHANGED << response, responses, chatReqs, lastChat >>
    /\ UNCHANGED << adapterVars, uiVars, traceVars, registryVars, gatewayVars, settingsVars, aborted >>
    /\ UNCHANGED << reqVars, messages, loopMessages, tools, i, toolCalls, tc, callReqs,
                    lastCall, lastOut, lastResult, toolsFetched, toolReplies, failures,
                    thrown >>

\* const out = await openaiCompatChat(base, apiKey, model, []); return res.json({ reply })
PlainReturn(o) ==
    /\ pc = "plain"
    /\ lastOut' = o
    /\ LET r == openaiCompatChat(o)
       IN  IF r.threw
           THEN Catch("provider", r.errmsg)
           ELSE /\ Respond(Reply(MessageContent(r.j.message)))
                /\ UNCHANGED thrown
    /\ UNCHANGED << adapterVars, uiVars, traceVars, registryVars, gatewayVars, settingsVars, aborted >>
    /\ UNCHANGED << reqVars, apiKey, base, messages, loopMessages, tools, i, toolCalls, tc,
                    chatReqs, toolsReqs, callReqs, lastChat, lastCall, lastResult,
                    toolsFetched, toolReplies, failures >>

\* const toolsResp = await fetch(`${mcpUrl}/mcp/tools...`) ... up to the first
\* await of the loop
ToolsReturn(o) ==
    /\ pc = "tools"
    /\ IF o.kind = "neterr"
       THEN /\ toolsFetched' = "rejected"
            /\ Catch("tools_fetch", NetErrMsg)
            /\ UNCHANGED << tools, loopMessages, i, chatReqs, lastChat >>
       ELSE /\ toolsFetched' = IF o.ok /\ o.parsed THEN "ok" ELSE "failed"
            /\ tools' = toOpenAITools(IF o.parsed /\ o.isArray THEN o.tools ELSE <<>>)
            /\ loopMessages' = messages
            /\ i' = 0
            /\ UNCHANGED thrown
            /\ IF LoopContinues(0)
               THEN /\ pc' = "chat"
                    /\ SendChat(messages, tools')
                    /\ UNCHANGED << response, responses >>
               ELSE /\ Respond(Exceeded)
                    /\ UNCHANGED << chatReqs, lastChat >>
    /\ UNCHANGED << adapterVars, uiVars, traceVars, registryVars, gatewayVars, settingsVars, aborted >>
    /\ UNCHANGED << reqVars, apiKey, base, messages, toolCalls, tc, toolsReqs, callReqs,
                    lastCall, lastOut, lastResult, toolReplies, failures >>

\* const out = await openaiCompatChat(base, apiKey, model, tools) ... up to the
\* fetch of the first tool call
ChatReturn(o) ==
    /\ pc = "chat"
    /\ lastOut' = o
    /\ LET r == openaiCompatChat(o)
           msg == r.j.message
           calls == msg.tool_calls
           content == MessageContent(msg)
       IN  IF r.threw
           THEN /\ Catch("provider", r.errmsg)
                /\ UNCHANGED << loopMessages, toolCalls, tc, callReqs, lastCall, toolReplies >>
           ELSE IF calls = <<>>
           THEN /\ Respond(Reply(content))
                /\ UNCHANGED << thrown, loopMessages, toolCalls, tc, callReqs, lastCall,
                                toolReplies >>
           ELSE /\ loopMessages' =
                       Append(loopMessages, Msg("assistant", content, calls, Undefined))
                /\ toolCalls' = calls
                /\ tc' = 1
                /\ toolReplies' = toolReplies + 1
                /\ pc' = "call"
                /\ SendCall(calls[1])
                /\ UNCHANGED << response, responses, thrown >>
    /\ UNCHANGED << adapterVars, uiVars, traceVars, registryVars, gatewayVars, settingsVars, aborted >>
    /\ UNCHANGED << reqVars, apiKey, base, messages, tools, i, chatReqs, toolsReqs, lastChat,
                    lastResult, toolsFetched, failures >>

\* const callJson = await callResp.json(); loopMessages.push(tool message) ... up
\* to the next await, or to the end of the loop
CallReturn(o) ==
    /\ pc = "call"
    /\ IsFailureResult(o) => failures < MaxToolFailures
    /\ lastResult' = o
    /\ failures' = IF IsFailureResult(o) THEN failures + 1 ELSE failures
    /\ IF CallThrows(o)
       THEN /\ Catch("tool_call", CallError(o))
            /\ UNCHANGED << messages, loopMessages, i, tc, chatReqs, callReqs, lastChat,
                            lastCall >>
       ELSE LET pushed == Append(loopMessages, ToolMessage(toolCalls[tc], o.body))
            IN  /\ loopMessages' = pushed
                /\ IF tc < Len(toolCalls)
                   THEN /\ tc' = tc + 1
                        /\ pc' = "call"
                        /\ SendCall(toolCalls[tc + 1])
                        /\ UNCHANGED << messages, i, chatReqs, lastChat, response, responses,
                                        thrown >>
                   ELSE /\ tc' = 0
                        /\ messages' = pushed
                        /\ i' = i + 1
                        /\ UNCHANGED << callReqs, lastCall, thrown >>
                        /\ IF LoopContinues(i + 1)
                           THEN /\ pc' = "chat"
                                /\ SendChat(pushed, tools)
                                /\ UNCHANGED << response, responses >>
                           ELSE /\ Respond(Exceeded)
                                /\ UNCHANGED << chatReqs, lastChat >>
    /\ UNCHANGED << adapterVars, uiVars, traceVars, registryVars, gatewayVars, settingsVars, aborted >>
    /\ UNCHANGED << reqVars, apiKey, base, tools, toolCalls, toolsReqs, lastOut,
                    toolsFetched, toolReplies >>

\* if (provider === "anthropic") ... if (provider === "gemini") ... if (provider === "watsonx")
OtherConfig(k, project) ==
    /\ pc = "start"
    /\ provider \in {"anthropic", "gemini", "watsonx"}
    /\ LET key == getKey(k)
       IN  /\ apiKey' = key
           /\ IF KeyMissing(provider, key)
              THEN /\ Respond(Failure(400, "missing_api_key",
                                      IF provider = "watsonx"
                                      THEN "Missing watsonx API key (bearer/IAM token)"
                                      ELSE "Missing " \o provider \o " API key"))
                   /\ UNCHANGED << thrown, chatReqs, lastChat >>
              ELSE IF provider = "watsonx" /\ getKey(project) = ""
              THEN /\ Catch("config", "Missing watsonx project id (watsonx_project)")
                   /\ UNCHANGED << chatReqs, lastChat >>
              ELSE /\ pc' = "other"
                   /\ SendChat(<<Msg("user", text, <<>>, Undefined)>>, <<>>)
                   /\ UNCHANGED << response, responses, thrown >>
    /\ UNCHANGED << adapterVars, uiVars, traceVars, registryVars, gatewayVars, settingsVars, aborted >>
    /\ UNCHANGED << reqVars, base, messages, loopMessages, tools, i, toolCalls, tc, toolsReqs,
                    callReqs, lastCall, lastOut, lastResult, toolsFetched, toolReplies,
                    failures >>

\* const out = await anthropicChat / geminiChat / watsonxChat; return res.json(out)
OtherReturn(o) ==
    /\ pc = "other"
    /\ lastOut' = o
    /\ LET r == otherChat(provider, o)
       IN  IF r.threw
           THEN Catch("provider", r.errmsg)
           ELSE /\ Respond(Reply(r.reply))
                /\ UNCHANGED thrown
    /\ UNCHANGED << adapterVars, uiVars, traceVars, registryVars, gatewayVars, settingsVars, aborted >>
    /\ UNCHANGED << reqVars, apiKey, base, messages, loopMessages, tools, i, toolCalls, tc,
                    chatReqs, toolsReqs, callReqs, lastChat, lastCall, lastResult,
                    toolsFetched, toolReplies, failures >>

\* return res.status(400).json({ error:"unsupported_provider", ... })
Unsupported ==
    /\ pc = "start"
    /\ provider \notin openaiCompatProviders \cup {"anthropic", "gemini", "watsonx"}
    /\ Respond(Failure(400, "unsupported_provider", "Provider not supported: " \o provider))
    /\ UNCHANGED << adapterVars, uiVars, traceVars, registryVars, gatewayVars, settingsVars, aborted >>
    /\ UNCHANGED << reqVars, apiKey, base, messages, loopMessages, tools, i, toolCalls, tc,
                    chatReqs, toolsReqs, callReqs, lastChat, lastCall, lastOut, lastResult,
                    toolsFetched, toolReplies, failures, thrown >>

Next ==
    \/ \E k \in ApiKeys, b \in BaseSettings : CompatConfig(k, b)
    \/ \E o \in ChatOutcomes : PlainReturn(o)
    \/ \E o \in ToolsFetchOutcomes : ToolsReturn(o)
    \/ \E o \in LoopOutcomes : ChatReturn(o)
    \/ \E o \in CallOutcomes : CallReturn(o)
    \/ \E k \in ApiKeys, project \in {"", "proj-1"} : OtherConfig(k, project)
    \/ \E o \in TextOutcomes : OtherReturn(o)
    \/ Unsupported

Spec == Init /\ [][Next]_vars

\* ------------------------------------------------------------------ the adapters

\* a list of raw descriptors is handed to the adapters
AdapterInit ==
    /\ rawTools \in RawLists(MaxTools)
    /\ adapted = <<>>
    /\ readapted = <<>>
    /\ listed = <<>>
    /\ adapterPc = "raw"
    /\ HandlerIdle
    /\ TraceIdle
    /\ RegistryIdle
    /\ GatewayIdle
    /\ SettingsIdle
    /\ UiIdle

\* const tools = toOpenAITools(rawTools)
Adapt ==
    /\ adapterPc = "raw"
    /\ adapted' = toOpenAITools(rawTools)
    /\ adapterPc' = "adapted"
    /\ UNCHANGED << rawTools, readapted, listed, handlerVars, traceVars, registryVars,
                    gatewayVars, settingsVars, uiVars >>

\* toOpenAITools applied to its own output
Readapt ==
    /\ adapterPc = "adapted"
    /\ readapted' = toOpenAITools(adapted)
    /\ adapterPc' = "readapted"
    /\ UNCHANGED << rawTools, adapted, listed, handlerVars, traceVars, registryVars,
                    gatewayVars, settingsVars, uiVars >>

\* const tools = mcpToOpenAITools([...]); res.json({ tools })
McpAdapt ==
    /\ adapterPc = "readapted"
    /\ listed' = mcpToOpenAITools(rawTools)
    /\ adapterPc' = "listed"
    /\ UNCHANGED << rawTools, adapted, readapted, handlerVars, traceVars, registryVars,
                    gatewayVars, settingsVars, uiVars >>

AdapterNext == Adapt \/ Readapt \/ McpAdapt

AdapterSpec == AdapterInit /\ [][AdapterNext]_vars

\* ------------------------------------------------------------------ the trace buffer

\* the registry server has started: const _log = []
TraceInit ==
    /\ TraceIdle
    /\ HandlerIdle
    /\ AdapterIdle
    /\ RegistryIdle
    /\ GatewayIdle
    /\ SettingsIdle
    /\ UiIdle

\* pushLog(kind, payload, meta, tenant)
PushLog(kind, payload) ==
    /\ Len(appended) < MaxAppends
    /\ log' = pushLog(log, Event(kind, payload))
    /\ appended' = Append(appended, Event(kind, payload))
    /\ UNCHANGED << logsLimit, logsOut, reads, running, handlerVars, adapterVars, uiVars, registryVars,
                    gatewayVars, settingsVars >>

\* a callback is started whatever is running
AlwaysSchedulable == TRUE

\* no synchronous code is running: the event loop can start a callback
Quiescent == ~running

\* app.get("/api/logs"): res.json({ events: _log.slice(-limit) })
GetLogs(q) ==
    /\ Quiescent
    /\ reads < MaxReads
    /\ logsLimit' = q
    /\ logsOut' = SliceLast(log, Limit(q))
    /\ reads' = reads + 1
    /\ UNCHANGED << log, appended, running, handlerVars, adapterVars, uiVars, registryVars,
                    gatewayVars, settingsVars >>

TraceNext ==
    \/ \E kind \in {"agent_request", "maximo_response"} : PushLog(kind, Record)
    \/ \E q \in Limits : GetLogs(q)

TraceSpec == TraceInit /\ [][TraceNext]_vars

\* ------------------------------------------------------------------ POST /mcp/call

\* the registry server has started, with the tenants of its environment
RegistryInit ==
    /\ tenants \in TenantRegistries
    /\ RegistryStart
    /\ TraceIdle
    /\ HandlerIdle
    /\ AdapterIdle
    /\ GatewayIdle
    /\ SettingsIdle
    /\ UiIdle

\* the answer is sent a second time
AnswerTwice(r) ==
    /\ mcpRes' = r
    /\ mcpAnswers' = mcpAnswers + 2
    /\ mcpPc' = "idle"

\* return res.status(..).json(..)
Answer(r) ==
    /\ mcpRes' = r
    /\ mcpAnswers' = mcpAnswers + 1
    /\ mcpPc' = "idle"

\* const r = await fetch(url, ...)
SendMaximo(r) ==
    /\ maximoReq' = r
    /\ maximoReqs' = maximoReqs + 1
    /\ mcpPc' = "maximo"

\* app.post("/mcp/call") up to its first await, or to its answer
McpCall(req) ==
    /\ mcpPc = "idle"
    /\ mcpCalls < MaxCalls
    /\ mcpCalls' = mcpCalls + 1
    /\ mcpReq' = req
    /\ LET tool == OrElse(req.tool, req.name)
           args == req.args
           tenantId == OrElse(req.tenant, OrElse(args.tenant, "default"))
           t == tenantOrThrow(tenants, tenantId)
           bad(r) == Answer(r) /\ UNCHANGED << maximoReq, maximoReqs >>
           send(r) == SendMaximo(r) /\ UNCHANGED << mcpRes, mcpAnswers >>
           json(st, err) == McpResponse(st, "application/json", Undefined, err, Undefined)
       IN  IF t.threw THEN bad(json(400, t.error))
           ELSE IF tool = "maximo.listOS"
           THEN send(MaximoRequest("GET", t.api \o "/os", t.apiKey, Undefined))
           ELSE IF tool = "maximo.queryOS"
           THEN IF OrElse(args.os, "") = "" THEN bad(json(400, "args.os is required"))
                ELSE send(MaximoRequest("GET", t.api \o "/os/" \o args.os \o "?", t.apiKey,
                                        Undefined))
           ELSE IF tool = "maximo.create"
           THEN IF OrElse(args.os, "") = "" THEN bad(json(400, "args.os is required"))
                ELSE send(MaximoRequest("POST", t.api \o "/os/" \o args.os \o "?lean=1",
                                        t.apiKey, OrElse(args.payload, "{}")))
           ELSE bad([json(400, "unknown_tool") EXCEPT !.tool = tool])
    /\ maximoOut' = [kind |-> "none", status |-> 0, ct |-> Undefined, raw |-> "", isJson |-> FALSE]
    /\ UNCHANGED << tenants, traceVars, handlerVars, adapterVars, uiVars, gatewayVars, settingsVars >>

\* the rest of the handler, once the request to Maximo has ended
MaximoReturn(o) ==
    /\ mcpPc = "maximo"
    /\ maximoOut' = o
    /\ LET tool == OrElse(mcpReq.tool, mcpReq.name)
           failed(d) == McpResponse(502, "application/json", Undefined, "mcp_failed", d)
       IN  IF o.kind = "neterr"
           THEN Answer(failed("FetchError: request to Maximo failed, reason: connect ETIMEDOUT"))
           ELSE IF tool = "maximo.listOS"
           THEN IF o.isJson
                THEN Answer(McpResponse(o.status, "application/json", o.raw, Undefined, Undefined))
                ELSE Answer(failed("FetchError: invalid json response body"))
           ELSE Answer(McpResponse(o.status, OrElse(o.ct, "application/json"), o.raw,
                                   Undefined, Undefined))
    /\ UNCHANGED << tenants, mcpReq, maximoReq, maximoReqs, mcpCalls, traceVars, handlerVars,
                    adapterVars, uiVars, gatewayVars, settingsVars >>

RegistryNext ==
    \/ \E req \in McpRequests : McpCall(req)
    \/ \E o \in MaximoOutcomes : MaximoReturn(o)
    \/ \E q \in Limits : GetLogs(q)

RegistrySpec == RegistryInit /\ [][RegistryNext]_vars

\* ------------------------------------------------------------------ cancellation

\* the client of POST /api/agent/chat goes away while the handler awaits a
\* request: the handler listens to no close event and passes no signal to fetch
Cancel ==
    /\ pc \in {"plain", "tools", "chat", "call", "other"}
    /\ ~aborted
    /\ aborted' = TRUE
    /\ UNCHANGED << reqVars, apiKey, base, messages, loopMessages, tools, i, toolCalls, tc, pc,
                    response, responses, chatReqs, toolsReqs, callReqs, lastChat, lastCall,
                    lastOut, lastResult, toolsFetched, toolReplies, failures, thrown >>
    /\ UNCHANGED << adapterVars, uiVars, traceVars, registryVars, gatewayVars, settingsVars >>

\* the runs of the handler, with clients that may go away
CancelSpec == Init /\ [][Next \/ Cancel]_vars

\* ------------------------------------------------------------------ concurrent appends

\* pushLog, called by request r: _log.push({ ts, kind, tenant, meta, payload })
BeginPush(kind, r) ==
    /\ Quiescent
    /\ Len(appended) < MaxAppends
    /\ log' = Append(log, Event(kind, r))
    /\ appended' = Append(appended, Event(kind, r))
    /\ running' = TRUE
    /\ UNCHANGED << logsLimit, logsOut, reads, handlerVars, adapterVars, uiVars, registryVars,
                    gatewayVars, settingsVars >>

\* while (_log.length > LOG_MAX) _log.shift(): one test of the loop, and the return
WhileShift ==
    /\ running
    /\ IF Len(log) > LOG_MAX
       THEN log' = Tail(log) /\ UNCHANGED running
       ELSE running' = FALSE /\ UNCHANGED log
    /\ UNCHANGED << appended, logsLimit, logsOut, reads, handlerVars, adapterVars, uiVars, registryVars,
                    gatewayVars, settingsVars >>

\* several requests append and read; a callback starts when none is running
ConcurrentTraceSpec ==
    TraceInit
    /\ [][ \/ \E r \in {"run-1", "run-2"} : BeginPush("agent_request", r)
           \/ WhileShift
           \/ \E q \in Limits : GetLogs(q) ]_vars

\* ------------------------------------------------------------------ mcpInvoke

GatewayInit ==
    /\ GatewayIdle
    /\ UiIdle
    /\ SettingsIdle
    /\ HandlerIdle
    /\ AdapterIdle
    /\ TraceIdle
    /\ RegistryIdle

\* async function mcpInvoke({ tool, input }) up to its await; url is MCP_SERVER_URL
Invoke(url, tool, input) ==
    /\ gwPc = "idle"
    /\ gwCalls < MaxInvokes
    /\ gwCalls' = gwCalls + 1
    /\ IF url = ""
       THEN /\ gwOut' = [threw |-> TRUE, message |-> "MCP_SERVER_URL is not configured",
                         value |-> Undefined]
            /\ UNCHANGED << gwPc, gwReq, gwTimer >>
       ELSE /\ gwTimer' = toAbortSignal(REQUEST_TIMEOUT_MS)
            /\ gwReq' = [tool |-> tool, input |-> input]
            /\ gwPc' = "fetch"
            /\ UNCHANGED gwOut
    /\ UNCHANGED << gwIn, gwRes, gwSent, handlerVars, adapterVars, uiVars, traceVars, registryVars,
                    settingsVars >>

\* the rest of mcpInvoke: the timer fires and aborts the fetch, or the fetch
\* ends; finally { cancel() }
InvokeReturn(o) ==
    /\ gwPc = "fetch"
    /\ gwPc' = "idle"
    /\ gwTimer' = cancel(gwTimer, o)
    /\ LET j == IF o.json.parsed THEN o.json ELSE NullJson
       IN  gwOut' =
             IF o.kind = "timeout"
             THEN [threw |-> TRUE, message |-> "The user aborted a request.", value |-> Undefined]
             ELSE IF o.kind = "neterr"
             THEN [threw |-> TRUE, message |-> NetErrMsg, value |-> Undefined]
             ELSE IF ~o.ok
             THEN [threw |-> TRUE, message |-> ErrorDetail(OrElse(j.errmsg, Slice(o.raw, DetailCap))),
                   value |-> Undefined]
             ELSE [threw |-> FALSE, message |-> Undefined,
                   value |-> IF j.parsed THEN j.str ELSE o.raw]
    /\ UNCHANGED << gwReq, gwCalls, gwIn, gwRes, gwSent, handlerVars, adapterVars, uiVars, traceVars,
                    registryVars, settingsVars >>

GatewaySpec ==
    GatewayInit
    /\ [][ \/ \E url \in McpUrls, tool \in {"maximo.listOS", "maximo.queryOS"},
                 input \in {"{}", "{\"os\":\"MXWO\"}"} : Invoke(url, tool, input)
           \/ \E o \in { [NetErr EXCEPT !.kind = "timeout"], NetErr,
                          Http(200, "application/json", "{\"member\":[]}", ChatJson(NoMessage)),
                          Http(200, "text/plain", "done", NullJson),
                          Http(502, "application/json", "{\"error\":\"mcp_failed\"}",
                               ErrorJson("mcp_failed")),
                          Http(503, "text/html", LongBody, NullJson) } : InvokeReturn(o) ]_vars

\* ------------------------------------------------------------------ gateway routes

\* the body of POST /chat goes to the provider without validation
PostChatUnvalidated(p, key, message) ==
    /\ gwPc = "idle"
    /\ gwIn' = [route |-> "/chat", message |-> message, name |-> Undefined,
                args |-> [type |-> "undefined", tool |-> Undefined, input |-> Undefined]]
    /\ gwTimer' = toAbortSignal(REQUEST_TIMEOUT_MS)
    /\ gwReq' = [tool |-> Undefined, input |-> message]
    /\ gwSent' = (IF p = "gemini" THEN "gemini" ELSE "openai")
    /\ gwRes' = [status |-> 0, error |-> Undefined, body |-> Undefined]
    /\ gwPc' = "fetch"
    /\ UNCHANGED << gwOut, gwCalls, handlerVars, adapterVars, uiVars, traceVars, registryVars,
                    settingsVars >>

\* app.post("/chat") up to the await of the provider's fetch, or to its answer;
\* p is PROVIDER and key the API key of that provider
PostChat(p, key, message) ==
    /\ gwPc = "idle"
    /\ gwIn' = [route |-> "/chat", message |-> message, name |-> Undefined,
                args |-> [type |-> "undefined", tool |-> Undefined, input |-> Undefined]]
    /\ LET \* ChatRequestSchema: message: z.string().min(1)
           valid == message \notin {Undefined, ""}
           notConfigured == IF p = "gemini" THEN "GEMINI_API_KEY is not configured"
                            ELSE "OPENAI_API_KEY is not configured"
       IN  IF ~valid
           THEN /\ gwRes' = [status |-> 400, error |-> "Invalid request", body |-> Undefined]
                /\ gwSent' = "none"
                /\ gwTimer' = [state |-> "none", ms |-> 0]
                /\ UNCHANGED << gwPc, gwReq, gwOut >>
           ELSE IF key = ""
           THEN /\ gwOut' = [threw |-> TRUE, message |-> notConfigured, value |-> Undefined]
                /\ gwRes' = [status |-> 500, error |-> notConfigured, body |-> Undefined]
                /\ gwSent' = "none"
                /\ gwTimer' = [state |-> "none", ms |-> 0]
                /\ UNCHANGED << gwPc, gwReq >>
           ELSE /\ gwTimer' = toAbortSignal(REQUEST_TIMEOUT_MS)
                /\ gwReq' = [tool |-> Undefined, input |-> message]
                /\ gwSent' = (IF p = "gemini" THEN "gemini" ELSE "openai")
                /\ gwRes' = [status |-> 0, error |-> Undefined, body |-> Undefined]
                /\ gwPc' = "fetch"
                /\ UNCHANGED gwOut
    /\ UNCHANGED << gwCalls, handlerVars, adapterVars, uiVars, traceVars, registryVars, settingsVars >>

\* app.post("/tools/call") up to the await of mcpInvoke's fetch, or to its
\* answer; url is MCP_SERVER_URL
PostToolsCall(url, name, arguments) ==
    /\ gwPc = "idle"
    /\ gwIn' = [route |-> "/tools/call", message |-> Undefined, name |-> name,
                args |-> arguments]
    /\ LET \* ToolCallSchema: name: z.string(), arguments: z.record(z.any()).default({})
           valid == name # Undefined /\ arguments.type \in {"object", "undefined"}
           \* MCPInvokeSchema: tool: z.string(), input: z.record(z.any()).default({})
           valid2 == /\ arguments.type = "object"
                     /\ arguments.tool # Undefined
                     /\ arguments.input \in {Undefined, "{}", "{\"os\":\"MXWO\"}"}
           refuse(st, e) == /\ gwRes' = [status |-> st, error |-> e, body |-> Undefined]
                            /\ gwSent' = "none"
                            /\ gwTimer' = [state |-> "none", ms |-> 0]
                            /\ UNCHANGED << gwPc, gwReq >>
       IN  IF ~valid THEN refuse(400, "Invalid request") /\ UNCHANGED gwOut
           ELSE IF name # "mcp.invoke"
           THEN refuse(400, "Unknown tool: " \o name) /\ UNCHANGED gwOut
           ELSE IF ~valid2 THEN refuse(400, "Invalid mcp.invoke args") /\ UNCHANGED gwOut
           ELSE IF url = ""
           THEN /\ refuse(500, "MCP_SERVER_URL is not configured")
                /\ gwOut' = [threw |-> TRUE, message |-> "MCP_SERVER_URL is not configured",
                              value |-> Undefined]
           ELSE /\ gwTimer' = toAbortSignal(REQUEST_TIMEOUT_MS)
                /\ gwReq' = [tool |-> arguments.tool, input |-> OrElse(arguments.input, "{}")]
                /\ gwSent' = "mcp"
                /\ gwRes' = [status |-> 0, error |-> Undefined, body |-> Undefined]
                /\ gwPc' = "fetch"
                /\ UNCHANGED gwOut
    /\ UNCHANGED << gwCalls, handlerVars, adapterVars, uiVars, traceVars, registryVars, settingsVars >>

\* the rest of mcpInvoke, callOpenAI or callGemini and of the route that called
\* it: the timer fires and aborts the fetch, or the fetch ends; finally
\* { cancel() }; res.json(..) or res.status(500).json({ error })
OutboundReturn(o) ==
    /\ gwPc = "fetch"
    /\ gwPc' = "idle"
    /\ gwTimer' = cancel(gwTimer, o)
    /\ LET \* callOpenAI parses the body only under a JSON content type
           j == IF o.json.parsed /\ (gwSent = "openai" => IsJsonType(o.ct))
                THEN o.json ELSE NullJson
           threw(m) == [threw |-> TRUE, message |-> m, value |-> Undefined]
           r == IF o.kind = "timeout" THEN threw("The user aborted a request.")
                ELSE IF o.kind = "neterr" THEN threw(NetErrMsg)
                ELSE IF ~o.ok
                THEN threw(IF gwSent = "gemini" THEN Slice(o.raw, DetailCap)
                           ELSE OrElse(j.errmsg, Slice(o.raw, DetailCap)))
                ELSE [threw |-> FALSE, message |-> Undefined,
                      value |-> IF gwSent = "mcp" THEN (IF j.parsed THEN j.str ELSE o.raw)
                                ELSE JoinLines(j.blocks)]
       IN  /\ gwOut' = r
           /\ gwRes' = IF r.threw
                       THEN [status |-> 500, error |-> ErrorDetail(r.message),
                             body |-> Undefined]
                       ELSE [status |-> 200, error |-> Undefined, body |-> r.value]
    /\ UNCHANGED << gwReq, gwCalls, gwIn, gwSent, handlerVars, adapterVars, uiVars, traceVars,
                    registryVars, settingsVars >>

RoutesSpec ==
    GatewayInit
    /\ [][ \/ \E p \in {"openai", "gemini"}, key \in {"", "sk-key"},
                 message \in {Undefined, "", "list open work orders"} :
                   PostChat(p, key, message)
           \/ \E url \in McpUrls, name \in {Undefined, "mcp.invoke", "maximo.listOS"},
                 arguments \in [type : {"undefined", "string", "object"},
                                tool : {Undefined, "maximo.queryOS"},
                                input : {Undefined, "{\"os\":\"MXWO\"}", "\"MXWO\""}] :
                   PostToolsCall(url, name, arguments)
           \/ \E o \in { [NetErr EXCEPT !.kind = "timeout"], NetErr,
                          Http(200, "application/json", "{\"content\":[...]}",
                               TextJson(<<"5 open", Undefined, "work orders">>, Undefined)),
                          Http(200, "text/plain", "done", NullJson),
                          Http(429, "application/json", "{\"error\":{...}}",
                               ErrorJson("Rate limit reached")),
                          Http(503, "text/html", LongBody, NullJson) } : OutboundReturn(o) ]_vars

\* ------------------------------------------------------------------ chat UI

\* onChange={(e) => setInput(e.target.value)}
setInput(v) ==
    /\ uiInput' = v
    /\ UNCHANGED << uiBusy, uiMessages, uiInFlight >>
    /\ UNCHANGED << handlerVars, adapterVars, traceVars, registryVars, gatewayVars,
                    settingsVars >>

\* const onSend = async (text) => { ... up to the await of apiAgentChat; from is
\* the Send button (disabled={busy || !input.trim()}), the Enter key or a
\* prompt chip, and txt, the argument text, is undefined unless a chip was picked
onSend(from, txt) ==
    /\ (from = "chip") <=> (txt # Undefined)
    /\ from = "button" => (~uiBusy /\ Trim(uiInput) # "")
    /\ Len(uiMessages) + Len(uiInFlight) < 2 * MaxSends
    /\ LET t == Trim(IF txt = Undefined THEN uiInput ELSE txt)
       IN  IF t = ""
           THEN UNCHANGED << uiInput, uiBusy, uiMessages, uiInFlight >>
           ELSE /\ uiBusy' = TRUE
                /\ uiInput' = ""
                /\ uiMessages' = Append(uiMessages, [role |-> "user", text |-> t])
                /\ uiInFlight' = Append(uiInFlight, t)
    /\ UNCHANGED << handlerVars, adapterVars, traceVars, registryVars, gatewayVars,
                    settingsVars >>

\* the rest of onSend for the k-th request in flight: apiAgentChat resolves with
\* resp or rejects with e; finally { setBusy(false) }
onSendSettled(k, o) ==
    /\ k \in 1..Len(uiInFlight)
    /\ uiMessages' = Append(uiMessages,
                            [role |-> "assistant",
                             text |-> IF o.ok THEN OrElse(o.reply, "")
                                      ELSE "Error: " \o o.message])
    /\ uiBusy' = FALSE
    /\ uiInFlight' = SubSeq(uiInFlight, 1, k - 1) \o SubSeq(uiInFlight, k + 1, Len(uiInFlight))
    /\ UNCHANGED uiInput
    /\ UNCHANGED << handlerVars, adapterVars, traceVars, registryVars, gatewayVars,
                    settingsVars >>

UiSpec ==
    GatewayInit
    /\ [][ \/ \E v \in {"", " ", "list open work orders "} : setInput(v)
           \/ \E from \in {"button", "enter", "chip"},
                 txt \in {Undefined, "Show me all assets"} : onSend(from, txt)
           \/ \E k \in 1..MaxSends,
                 o \in { [ok |-> TRUE, reply |-> "There are 5 open work orders.",
                          message |-> Undefined],
                         [ok |-> TRUE, reply |-> Undefined, message |-> Undefined],
                         [ok |-> FALSE, reply |-> Undefined, message |-> "agent_failed"] } :
                   onSendSettled(k, o) ]_vars

\* ------------------------------------------------------------------ GET and POST /api/settings

\* the agent server has started with its environment; there is no settings file yet
SettingsInit ==
    /\ envVars \in [SettingKeys -> {Undefined, "from-secret"}]
    /\ fileSettings = [k \in SettingKeys |-> Undefined]
    /\ merged = [k \in SettingKeys |-> Undefined]
    /\ GatewayIdle
    /\ UiIdle
    /\ HandlerIdle
    /\ AdapterIdle
    /\ TraceIdle
    /\ RegistryIdle

\* app.get("/api/settings"): const merged = { ...envSettings(), ...readFileSettings() }
GetSettings ==
    /\ merged' = [k \in SettingKeys |->
                    IF fileSettings[k] # Undefined THEN fileSettings[k] ELSE envSettings(envVars)[k]]
    /\ UNCHANGED << envVars, fileSettings, handlerVars, adapterVars, uiVars, traceVars, registryVars,
                    gatewayVars >>

\* app.post("/api/settings"): writeFileSettings(req.body || {})
PostSettings(body) ==
    /\ fileSettings' = body
    /\ UNCHANGED << envVars, merged, handlerVars, adapterVars, uiVars, traceVars, registryVars,
                    gatewayVars >>

SettingsSpec ==
    SettingsInit
    /\ [][ \/ GetSettings
           \/ \E body \in [SettingKeys -> {Undefined, "", "from-file"}] : PostSettings(body) ]_vars

\* ------------------------------------------------------------------ properties

\* the run went through the tool-call loop
InLoopRun == toolsFetched \in {"ok", "failed"}

\* the tool messages of a conversation
ToolMsgCount(ms) == Cardinality({k \in 1..Len(ms) : ms[k].role = "tool"})

\* the last provider answer was parsed and its message holds no tool call
TerminalReply ==
    /\ lastOut.kind = "http" /\ lastOut.ok
    /\ IsJsonType(lastOut.ct) /\ lastOut.json.parsed
    /\ lastOut.json.message.present
    /\ lastOut.json.message.tool_calls = <<>>

\* C1: in a run of the tool-call loop in which every provider reply held a tool
\* call and no outbound request failed, exactly 6 provider requests are issued,
\* never a 7th, and the run ends with the normal response "Tool orchestration
\* exceeded max iterations."
C1_ExactlySixRequests ==
    /\ chatReqs <= 6
    /\ (pc = "done" /\ InLoopRun /\ thrown = "none" /\ toolReplies = chatReqs)
         => /\ chatReqs = 6
            /\ responses = 1
            /\ response = [status |-> 200,
                           reply |-> "Tool orchestration exceeded max iterations."]

C1_Witness ==
    /\ pc = "done" /\ InLoopRun /\ thrown = "none"
    /\ toolReplies = 6 /\ chatReqs = 6
    /\ "reply" \in DOMAIN response

\* C2: a provider reply without tool calls, at any iteration of the loop, ends
\* the run: the response is {reply: the reply's content as it came ("" when it
\* has none)}, the conversation is the one that request carried (nothing was
\* appended), that request is the last provider request and no tool call was
\* issued after it.
C2_TerminalReplyEndsRun ==
    (InLoopRun /\ pc = "done" /\ thrown = "none" /\ TerminalReply)
      => /\ response = [status |-> 200,
                        reply |-> IF lastOut.json.message.content = Undefined THEN ""
                                  ELSE lastOut.json.message.content]
         /\ responses = 1
         /\ loopMessages = lastChat.messages
         /\ chatReqs = toolReplies + 1
         /\ callReqs = ToolMsgCount(loopMessages)

C2_Witness ==
    /\ InLoopRun /\ pc = "done" /\ TerminalReply
    /\ chatReqs = 1
    /\ response = [status |-> 200, reply |-> " There are 5 open work orders.\n"]

\* every assistant message with tool calls is followed at once by one tool
\* message per call, in the order of the calls and with their ids, and every tool
\* message belongs to such a group
Alternates(ms) ==
    /\ \A k \in 1..Len(ms) :
         (ms[k].role = "assistant" /\ ms[k].tool_calls # <<>>)
           => LET calls == ms[k].tool_calls
              IN  /\ k + Len(calls) <= Len(ms)
                  /\ \A j \in 1..Len(calls) :
                       /\ ms[k + j].role = "tool"
                       /\ ms[k + j].tool_call_id = calls[j].id
                  /\ (k + Len(calls) < Len(ms)) => ms[k + Len(calls) + 1].role # "tool"
    /\ \A m \in 1..Len(ms) :
         ms[m].role = "tool"
           => \E k \in 1..(m - 1) :
                /\ ms[k].role = "assistant"
                /\ m - k <= Len(ms[k].tool_calls)
                /\ \A q \in (k + 1)..m : ms[q].role = "tool"

\* C3: after any number of completed iterations (the conversation is handed to
\* the next provider request, or the loop has ended), every assistant message
\* with tool calls is immediately followed by exactly one tool message per call,
\* in call order and with matching tool_call_id, and there is no other tool
\* message.
C3_MessageAlternation ==
    /\ Alternates(messages)
    /\ (pc = "chat") => (Alternates(loopMessages) /\ lastChat.messages = loopMessages)
    /\ (pc = "done" /\ InLoopRun /\ thrown = "none") => Alternates(loopMessages)

C3_Witness ==
    /\ pc = "chat" /\ i >= 2
    /\ \E k \in 1..Len(loopMessages) : Len(loopMessages[k].tool_calls) = 2
    /\ loopMessages[Len(loopMessages)].role = "tool"

\* C4: a tool invocation answered with a failure result (non-2xx status, JSON
\* error body) is not thrown: its payload is appended as a tool message, a run
\* that ends in the catch block because of a tool call did not end on a failure
\* result, and once the batch is over the next provider request has been issued
\* (unless the batch was that of the 6th iteration).
C4_FailureResultIsData ==
    IsFailureResult(lastResult)
      => /\ \E k \in 1..Len(loopMessages) :
              /\ loopMessages[k].role = "tool"
              /\ loopMessages[k].content = JsonStringify(lastResult.body)
         /\ thrown # "tool_call"
         /\ (tc = 0 /\ i < 6) => chatReqs = i + 1

C4_Witness ==
    /\ pc = "chat" /\ tc = 0
    /\ IsFailureResult(lastResult)
    /\ loopMessages[Len(loopMessages)].content
         = "{\"error\":\"mcp_failed\",\"detail\":\"FetchError: ETIMEDOUT\"}"
    /\ chatReqs = i + 1

\* C5: a tool invocation that fails with a network error or with a body that is
\* not JSON never ends the run with an error response.
C5_ToolErrorNeverFatal ==
    (pc = "done" /\ (lastResult.kind = "neterr" \/ (lastResult.kind = "http" /\ ~lastResult.isJson)))
      => "error" \notin DOMAIN response

\* C6: when the fetch of the tool list fails, by a network error, a non-2xx
\* status or an unparseable body, the run still issues the provider request and
\* the request as a whole does not fail because of it.
C6_ToolListFailureDegrades ==
    (toolsFetched \in {"rejected", "failed"})
      => /\ chatReqs >= 1
         /\ thrown # "tools_fetch"

C8_UnparsedReplyIsFailure ==
    (pc = "done" /\ provider \in openaiCompatProviders
       /\ lastOut.kind = "http" /\ lastOut.ok /\ ~lastOut.json.parsed)
      => /\ "error" \in DOMAIN response
         /\ "reply" \notin DOMAIN response

\* C9: when the API key of the selected provider is missing, the handler
\* answers 400 missing_api_key and has issued no outbound request of any kind.
C9_MissingKeyBeforeAnyRequest ==
    (apiKey = "")
      => /\ pc = "done"
         /\ responses = 1
         /\ response.status = 400
         /\ response.error = "missing_api_key"
         /\ chatReqs = 0 /\ toolsReqs = 0 /\ callReqs = 0

C9_Witness ==
    /\ apiKey = "" /\ provider = "gemini"
    /\ pc = "done" /\ response.status = 400
    /\ chatReqs = 0

\* C10 as claimed: tools enabled without a registry URL is a configuration
\* error: the request is rejected and no provider request is issued.
C10_NoUrlRejected ==
    (pc = "done" /\ provider \in openaiCompatProviders /\ enableTools /\ mcpUrl = "")
      => /\ chatReqs = 0
         /\ "error" \in DOMAIN response

\* C10, amended: with tools enabled but no registry URL configured (and the key
\* and base URL present), the request is not rejected: it runs as a plain chat,
\* with exactly one provider request that carries no tools and no request to the
\* tool registry; the response is that reply, or the provider's failure.
C10_NoUrlMeansPlainChat ==
    (provider \in openaiCompatProviders /\ enableTools /\ mcpUrl = ""
       /\ apiKey \notin {Undefined, ""} /\ base \notin {Undefined, ""})
      => /\ chatReqs = 1
         /\ toolsReqs = 0 /\ callReqs = 0
         /\ ~lastChat.has_tools /\ lastChat.tool_choice = Undefined
         /\ lastChat.messages = messages
         /\ (pc = "done")
              => \/ response.status = 200 /\ thrown = "none"
                 \/ response.status = 500 /\ thrown = "provider"

C10_Witness ==
    /\ provider \in openaiCompatProviders /\ enableTools /\ mcpUrl = ""
    /\ pc = "done" /\ chatReqs = 1
    /\ response = [status |-> 200, reply |-> " There are 5 open work orders.\n"]

\* C11: for anthropic, gemini and watsonx no request to the tool registry (tool
\* list or tool call) is issued and no tool descriptors are sent to the provider,
\* whatever enableTools and the registry URL are; at most one provider request
\* is made.
C11_OtherProvidersNeverUseTools ==
    (provider \in {"anthropic", "gemini", "watsonx"})
      => /\ toolsReqs = 0 /\ callReqs = 0
         /\ ~lastChat.has_tools /\ lastChat.tools = <<>> /\ lastChat.tool_choice = Undefined
         /\ tools = <<>>
         /\ chatReqs <= 1

C11_Witness ==
    /\ provider = "anthropic" /\ enableTools /\ mcpUrl # ""
    /\ pc = "done" /\ chatReqs = 1
    /\ response = [status |-> 200, reply |-> "Hello\nthere"]

\* C12: with an OpenAI-compatible provider, its key and base URL configured, and
\* enableTools false, a run issues exactly one provider request, without tools,
\* and no request to the tool registry; when that request is answered with a
\* parsed reply the response is {reply: the content of the reply's message}
\* ("" when it has none).
C12_PlainChatOneRequest ==
    (provider \in openaiCompatProviders /\ ~enableTools
       /\ apiKey \notin {Undefined, ""} /\ base \notin {Undefined, ""})
      => /\ chatReqs = 1
         /\ toolsReqs = 0 /\ callReqs = 0
         /\ lastChat = [messages |-> InitialMessages(system), has_tools |-> FALSE,
                        tools |-> <<>>, tool_choice |-> Undefined]
         /\ (pc = "done" /\ lastOut.kind = "http" /\ lastOut.ok
               /\ IsJsonType(lastOut.ct) /\ lastOut.json.parsed)
              => /\ responses = 1
                 /\ response = [status |-> 200,
                                reply |-> IF lastOut.json.message.content = Undefined THEN ""
                                          ELSE lastOut.json.message.content]

C12_Witness ==
    /\ provider = "mistral" /\ ~enableTools /\ mcpUrl # ""
    /\ pc = "done" /\ chatReqs = 1 /\ toolsReqs = 0
    /\ lastOut.json.message.tool_calls # <<>>
    /\ response = [status |-> 200, reply |-> "Let me check."]

\* C13: a provider request carries tools and tool_choice "auto" if and only if
\* the tool descriptor list is non-empty; in a run of the loop the list it
\* carries is the adapted list, and with an empty list the loop still runs and
\* its requests carry neither field.
C13_ToolsFieldIffNonEmpty ==
    (chatReqs >= 1)
      => /\ lastChat.has_tools <=> (lastChat.tools # <<>>)
         /\ lastChat.tool_choice = (IF lastChat.tools # <<>> THEN "auto" ELSE Undefined)
         /\ lastChat.tools = (IF InLoopRun THEN tools ELSE <<>>)
         /\ (InLoopRun /\ pc \in {"chat", "call"}) => chatReqs = i + 1

C13_Witness ==
    /\ InLoopRun /\ tools = <<>>
    /\ pc = "chat" /\ i >= 1 /\ chatReqs = i + 1
    /\ ~lastChat.has_tools /\ lastChat.tool_choice = Undefined

\* the name a raw descriptor carries for toOpenAITools: function.name of an
\* OpenAI-ready one, else the top-level name without surrounding blanks
RawName(t) ==
    IF t.type = "function" /\ t.function.present /\ t.function.name \notin {Undefined, ""}
    THEN t.function.name
    ELSE IF t.name = Undefined THEN "" ELSE Trim(t.name)

\* the schema a raw descriptor carries for toOpenAITools
RawSchema(t) ==
    IF t.type = "function" /\ t.function.present /\ t.function.name \notin {Undefined, ""}
    THEN t.function.parameters
    ELSE t.inputSchema

\* the raw descriptors with a name, for toOpenAITools and for mcpToOpenAITools
Kept == SelectSeq(rawTools, LAMBDA t : RawName(t) # "")
McpKept == SelectSeq(rawTools, LAMBDA t : t.name \notin {Undefined, ""})

\* C14: toOpenAITools is idempotent: applied to its own output, for every list
\* of raw descriptors (OpenAI-ready, registry-native or mixed, with missing
\* names and missing or malformed schemas), it returns that output unchanged.
C14_AdapterIdempotent ==
    (adapterPc \in {"readapted", "listed"}) => readapted = adapted

C14_Witness ==
    /\ adapterPc = "readapted"
    /\ rawTools = << Native(" maximo.queryOS ", Undefined, NoSchema),
                     Native("", "no name", ObjectSchema),
                     Canonical("maximo.create", Undefined, StringSchema) >>
    /\ Len(adapted) = 2
    /\ readapted = adapted

\* C15: a raw descriptor whose name is empty or missing does not appear in an
\* adapter's output, every descriptor with a name appears exactly once, and the
\* output keeps the order of the input: the names of the output are the names
\* of the named input descriptors, in input order. An adapter always returns a
\* list.
C15_NamelessDropped ==
    /\ (adapterPc \in {"adapted", "readapted", "listed"})
         => /\ Len(adapted) = Len(Kept)
            /\ \A k \in 1..Len(adapted) :
                 /\ adapted[k].function.name = RawName(Kept[k])
                 /\ adapted[k].function.name # ""
    /\ (adapterPc = "listed")
         => /\ Len(listed) = Len(McpKept)
            /\ \A k \in 1..Len(listed) :
                 /\ listed[k].function.name = McpKept[k].name
                 /\ listed[k].function.name # ""

C15_Witness ==
    /\ adapterPc = "listed"
    /\ rawTools = << Native("maximo.listOS", "List object structures (/os)", ObjectSchema),
                     Native(Undefined, Undefined, NoSchema),
                     Canonical("maximo.create", Undefined, StringSchema) >>
    /\ Len(adapted) = 2
    /\ adapted[1].function.name = "maximo.listOS"
    /\ adapted[2].function.name = "maximo.create"
    /\ Len(listed) = 1

\* a descriptor of the OpenAI tool form, made from a raw one with schema sch
WellFormed(x, sch) ==
    /\ x.type = "function"
    /\ x.function.present
    /\ x.function.name \notin {Undefined, ""}
    /\ x.function.description # Undefined
    /\ x.function.parameters.isObject
    /\ x.function.parameters = (IF sch.isObject THEN sch ELSE DefaultParameters)

C17_OutputNamesDistinct ==
    (adapterPc \in {"adapted", "readapted", "listed"})
      => \A j, k \in 1..Len(adapted) :
           (j # k) => adapted[j].function.name # adapted[k].function.name

\* the n newest events of a buffer, newest last
Newest(buf, n) == SubSeq(buf, Len(buf) - n + 1, Len(buf))

\* C18: after n appends with capacity LOG_MAX the buffer holds exactly
\* min(n, LOG_MAX) events: the most recently appended ones, in append order
\* (the oldest are evicted first).
C18_BufferHoldsNewest ==
    /\ Len(log) = Min(Len(appended), LOG_MAX)
    /\ log = Newest(appended, Min(Len(appended), LOG_MAX))

C18_Witness ==
    /\ Len(appended) = LOG_MAX + 2
    /\ Len(log) = LOG_MAX
    /\ appended[1].kind # appended[LOG_MAX + 2].kind
    /\ appended[2].kind # appended[3].kind
    /\ log[1] = appended[3]
    /\ log[LOG_MAX] = appended[LOG_MAX + 2]

\* C19: GET /api/logs with limit L (a non-negative integer, 0 included; 200
\* when no limit is given) answers with exactly the min(L, LOG_MAX, number of
\* stored events) most recent events, most recent last.
C19_ReadReturnsNewest ==
    [][ (reads' = reads + 1 /\ logsLimit' \in {Undefined, "0", "1", "2", "4", "500"})
          => LET L == IF logsLimit' = Undefined THEN 200 ELSE Number(logsLimit').n
             IN  logsOut' = Newest(log, Min(Min(L, LOG_MAX), Len(log))) ]_vars

\* C20: once the registry server has answered a /mcp/call, the trace buffer
\* that /api/logs reads holds events of that invocation.
C20_CallIsTraced ==
    (mcpAnswers >= 1) => Len(log) >= 1

\* C21: appends by several requests are atomic: whenever no call of pushLog is
\* under way the buffer holds the newest appended events, in order, none lost
\* and none twice, and a read of /api/logs never meets a buffer longer than
\* the capacity nor answers with more than LOG_MAX events.
C21_AppendsAtomic ==
    /\ [](~running => /\ Len(log) = Min(Len(appended), LOG_MAX)
                       /\ log = Newest(appended, Min(Len(appended), LOG_MAX)))
    /\ [][(reads' = reads + 1)
            => /\ Len(log) <= LOG_MAX
               /\ Len(logsOut') <= LOG_MAX
               /\ log = Newest(appended, Min(Len(appended), LOG_MAX))]_vars

C21_Witness ==
    /\ ~running
    /\ Len(appended) = LOG_MAX + 2
    /\ appended[LOG_MAX + 1].payload # appended[LOG_MAX + 2].payload
    /\ reads = 2
    /\ logsLimit = "4"
    /\ logsOut = Newest(appended, LOG_MAX)

\* C22: on a timeout, a network failure or a non-2xx status mcpInvoke returns a
\* failure result to its caller and raises no exception.
C22_InvokeNeverThrows ==
    (/\ gwPc = "idle"
     /\ gwTimer.state \in {"fired", "cleared"}
     /\ gwOut.message # "MCP_SERVER_URL is not configured") => ~gwOut.threw

\* C23: once the inbound request has been cancelled, the run issues no further
\* provider or tool request.
C23_NoRequestAfterCancel ==
    [][aborted => (chatReqs' = chatReqs /\ callReqs' = callReqs /\ toolsReqs' = toolsReqs)]_vars


\* C24: a tool call whose arguments string is not valid JSON is posted with the
\* arguments {raw: <the string>}, the run goes on, and a run that ends with an
\* error after such a call does so because a request failed, never because
\* of the arguments.
C24_BadArgumentsBecomeRaw ==
    /\ (pc = "call" /\ toolCalls[tc] = tcBad)
         => /\ lastCall = [name |-> "maximo.create",
                           args |-> [os |-> Undefined, raw |-> "{os:"],
                           tenant |-> tenant]
            /\ responses = 0
            /\ thrown = "none"
    /\ (lastCall.name = "maximo.create" /\ pc = "done" /\ "error" \in DOMAIN response)
         => \/ thrown = "provider"
            \/ thrown = "tool_call" /\ CallThrows(lastResult)

C24_Witness ==
    /\ lastCall.args.raw = "{os:"
    /\ pc = "chat"
    /\ i = 2
    /\ loopMessages[Len(loopMessages)].tool_call_id = "call_3"
    /\ lastChat.messages = loopMessages

\* C25: a /mcp/call whose tenant has no base URL, the default tenant having
\* none either, is answered 400 "Tenant is not configured" and no request to
\* Maximo is issued for it.
C25_UnconfiguredTenantIsRefused ==
    LET id == OrElse(mcpReq.tenant, OrElse(mcpReq.args.tenant, "default"))
        usable(k) == k \in DOMAIN tenants /\ tenants[k].baseUrl \notin {Undefined, ""}
    IN  (mcpCalls >= 1 /\ ~usable(id) /\ ~usable("default"))
          => /\ mcpPc = "idle"
             /\ mcpRes.status = 400
             /\ mcpRes.error = "Error: Tenant is not configured: " \o id
             /\ maximoReqs < mcpCalls

C25_Witness ==
    /\ mcpCalls = 1
    /\ tenants = [default |-> Tenant(Undefined, Undefined)]
    /\ mcpReq.name = "maximo.listOS"
    /\ mcpAnswers = 1
    /\ mcpRes.status = 400
    /\ maximoReqs = 0

\* C26: a run whose last provider request failed, by a network error, a non-2xx
\* status or a body that could not be read, answers with an error tag and a
\* detail and never with a reply.
C26_EveryFailureIsReported ==
    (pc = "done"
       /\ \/ lastOut.kind = "neterr"
          \/ lastOut.kind = "http" /\ (~lastOut.ok \/ ~lastOut.json.parsed))
      => /\ {"error", "detail"} \subseteq DOMAIN response
         /\ "reply" \notin DOMAIN response

\* C27: a read of /api/settings gives, for every setting defined both in the
\* environment and in the settings file, the value of the environment.
C27_EnvironmentWins ==
    [][(merged' # merged /\ fileSettings' = fileSettings)
         => \A k \in SettingKeys :
                (envVars[k] # Undefined /\ fileSettings[k] \notin {Undefined, ""})
                  => merged'[k] = envVars[k]]_vars

\* C28: a provider request after the first carries the whole conversation, which
\* ends with the assistant message of the previous reply followed by one tool
\* message per tool call of that reply, in order; while a tool call of reply k
\* is in flight, request k + 1 has not been issued.
C28_StrictSequencing ==
    /\ (pc = "chat" /\ i >= 1)
         => LET n == Len(loopMessages)
                m == Len(toolCalls)
            IN  /\ lastChat.messages = loopMessages
                /\ n >= m + 1
                /\ loopMessages[n - m].role = "assistant"
                /\ loopMessages[n - m].tool_calls = toolCalls
                /\ \A k \in 1..m :
                       /\ loopMessages[n - m + k].role = "tool"
                       /\ loopMessages[n - m + k].tool_call_id = toolCalls[k].id
                /\ chatReqs = i + 1
    /\ (pc = "call")
         => /\ chatReqs = i + 1
            /\ toolReplies = i + 1
            /\ ToolMsgCount(lastChat.messages) = ToolMsgCount(loopMessages) - (tc - 1)

C28_Witness ==
    /\ pc = "chat"
    /\ i = 1
    /\ Len(toolCalls) = 2
    /\ chatReqs = 2
    /\ lastChat.messages = loopMessages
    /\ loopMessages[Len(loopMessages)].tool_call_id = "call_3"
    /\ loopMessages[Len(loopMessages) - 1].tool_call_id = "call_2"

\* C29: every tool call of a reply is posted to /mcp/call once, with its name,
\* its parsed arguments and the tenant of the run, in the order of the reply:
\* the requests issued are the tool messages appended plus the call in flight
\* or the one whose failure ended the run.
C29_OneInvokePerToolCall ==
    /\ (pc = "call")
         => /\ lastCall = [name |-> toolCalls[tc].name,
                           args |-> ParseArgs(OrElse(toolCalls[tc].arguments, "{}")),
                           tenant |-> tenant]
            /\ callReqs = ToolMsgCount(loopMessages) + 1
            /\ \A k \in 1..(tc - 1) :
                   loopMessages[Len(loopMessages) - (tc - 1) + k].tool_call_id
                     = toolCalls[k].id
    /\ (pc # "call")
         => callReqs = ToolMsgCount(loopMessages) + (IF thrown = "tool_call" THEN 1 ELSE 0)

C29_Witness ==
    /\ pc = "call"
    /\ tc = 2
    /\ i = 1
    /\ toolCalls = <<tcQuery, tcBad>>
    /\ callReqs = ToolMsgCount(loopMessages) + 1
    /\ callReqs >= 3
    /\ lastCall.name = "maximo.create"

\* the JSON text of a ToolResult {ok, status, body}
ToolResultJson(o) ==
    "{\"ok\":" \o (IF o.status >= 200 /\ o.status < 300 THEN "true" ELSE "false")
      \o ",\"status\":" \o ToString(o.status)
      \o ",\"body\":" \o JsonStringify(o.body) \o "}"

\* C30: the tool message appended for a tool call holds the JSON text of the
\* ToolResult {ok, status, body} of its invocation and the id of the call.
C30_ToolMessageIsToolResult ==
    (Len(loopMessages) >= 1 /\ loopMessages[Len(loopMessages)].role = "tool")
      => /\ loopMessages[Len(loopMessages)].content = ToolResultJson(lastResult)
         /\ loopMessages[Len(loopMessages)].tool_call_id \in {"call_1", "call_2", "call_3"}


\* C31: the conversation is append-only: the first provider request of a run
\* carries the system message, if the system prompt is not empty, and the user
\* message; every later request carries the messages of the request before it
\* as a strict prefix.
C31_AppendOnly ==
    [][(chatReqs' = chatReqs + 1 /\ provider \in openaiCompatProviders)
         => IF chatReqs = 0
            THEN lastChat'.messages
                   = (IF system # "" THEN <<Msg("system", system, <<>>, Undefined)>> ELSE <<>>)
                     \o <<Msg("user", text, <<>>, Undefined)>>
            ELSE /\ Len(lastChat'.messages) > Len(lastChat.messages)
                 /\ SubSeq(lastChat'.messages, 1, Len(lastChat.messages))
                      = lastChat.messages]_vars

C31_Witness ==
    /\ pc = "chat"
    /\ system # ""
    /\ chatReqs = 3
    /\ lastChat.messages[1].role = "system"
    /\ lastChat.messages[2].role = "user"
    /\ Len(lastChat.messages) >= 6
    /\ lastChat.messages[Len(lastChat.messages)].role = "tool"


\* C32: when the request to Maximo fails, by a network error or by a body that
\* is not JSON where the handler reads JSON, /mcp/call answers 502 with
\* {error: "mcp_failed", detail}; every /mcp/call received has been answered
\* once, except the one still waiting for Maximo.
C32_MaximoFailureIs502 ==
    LET failed == \/ maximoOut.kind = "neterr"
                  \/ /\ maximoOut.kind = "http"
                     /\ ~maximoOut.isJson
                     /\ OrElse(mcpReq.tool, mcpReq.name) = "maximo.listOS"
    IN  /\ (mcpPc = "idle" /\ failed)
             => /\ mcpRes.status = 502
                /\ mcpRes.error = "mcp_failed"
                /\ mcpRes.detail # Undefined
        /\ mcpAnswers = mcpCalls - (IF mcpPc = "maximo" THEN 1 ELSE 0)

C32_Witness ==
    /\ mcpPc = "idle"
    /\ mcpReq.name = "maximo.listOS"
    /\ maximoOut.kind = "http" /\ maximoOut.status = 503 /\ ~maximoOut.isJson
    /\ mcpRes.status = 502
    /\ mcpRes.detail = "FetchError: invalid json response body"
    /\ mcpAnswers = 1

\* C35: the record that maximo.create posts to Maximo is the value of the
\* argument `body` that the schema of the tool declares and requires.
C35_CreatePostsBodyArgument ==
    (/\ mcpPc = "maximo"
     /\ OrElse(mcpReq.tool, mcpReq.name) = "maximo.create"
     /\ mcpReq.args.body # Undefined)
      => maximoReq.body = mcpReq.args.body

\* C36: a /mcp/call naming a tenant that is not in the registry is executed
\* with the base URL and the API key of the default tenant when that one has
\* a base URL, and is answered 400 "Tenant is not configured" when it has none.
C36_AbsentTenantFallsBackToDefault ==
    LET id == OrElse(mcpReq.tenant, OrElse(mcpReq.args.tenant, "default"))
        refusal == "Error: Tenant is not configured: " \o id
        api == mkBaseApi(tenants["default"].baseUrl)
    IN  (mcpCalls >= 1 /\ id \notin DOMAIN tenants)
          => IF "default" \in DOMAIN tenants
                /\ tenants["default"].baseUrl \notin {Undefined, ""}
             THEN /\ mcpPc = "idle" => mcpRes.error # refusal
                  /\ mcpPc = "maximo"
                       => /\ maximoReq.apikey = tenants["default"].apiKey
                          /\ SubSeq(maximoReq.url, 1, Len(api)) = api
                  /\ OrElse(mcpReq.tool, mcpReq.name) = "maximo.listOS"
                       => (mcpPc = "maximo" \/ maximoOut.kind # "none")
             ELSE /\ mcpPc = "idle"
                  /\ mcpRes.status = 400
                  /\ mcpRes.error = refusal

C36_Witness ==
    /\ mcpReq.tenant = "ghost"
    /\ mcpReq.name = "maximo.queryOS"
    /\ "ghost" \notin DOMAIN tenants
    /\ mcpPc = "maximo"
    /\ maximoReq.url = "https://maximo.example/maximo/api/os/MXWO?"
    /\ maximoReq.apikey = "key-default"


\* C33: the handler of /api/agent/chat sends exactly one response on every
\* path: none while an outbound call is awaited, one once it has finished,
\* never two; and while it has not finished it is waiting for an outbound call
\* whose return resumes it.
C33_ExactlyOneResponse ==
    /\ responses = (IF pc = "done" THEN 1 ELSE 0)
    /\ pc = "done" <=> response # NoResponse
    /\ pc = "done" => response.status \in {200, 400, 500}
    /\ pc \in {"start", "plain", "tools", "chat", "call", "other", "done"}

C33_Witness ==
    /\ pc = "done"
    /\ thrown = "tool_call"
    /\ responses = 1
    /\ response.status = 500
    /\ callReqs = 2

\* C34: a run that ends with the exceeded-max-iterations reply has issued 6
\* provider requests and executed 6 batches of tool calls; every call of the
\* last batch was invoked and its tool message appended, and no provider
\* request carries the messages of that batch.
C34_LastBatchNeverSubmitted ==
    (pc = "done" /\ response = Exceeded)
      => /\ chatReqs = 6
         /\ toolReplies = 6
         /\ i = 6
         /\ thrown = "none"
         /\ callReqs = ToolMsgCount(loopMessages)
         /\ loopMessages[Len(loopMessages)].role = "tool"
         /\ loopMessages[Len(loopMessages)].tool_call_id = toolCalls[Len(toolCalls)].id
         /\ Len(loopMessages) = Len(lastChat.messages) + 1 + Len(toolCalls)
         /\ SubSeq(loopMessages, 1, Len(lastChat.messages)) = lastChat.messages

C34_Witness ==
    /\ pc = "done"
    /\ response = Exceeded
    /\ toolCalls = <<tcQuery, tcBad>>
    /\ chatReqs = 6
    /\ callReqs >= 7
    /\ ToolMsgCount(lastChat.messages) < ToolMsgCount(loopMessages)


\* C37: a request to POST /chat without a message, or to POST /tools/call with
\* an invalid body, a tool other than "mcp.invoke" or invalid mcp.invoke
\* arguments, is answered 400 and causes no request to the provider or to
\* the MCP server.
C37_InvalidRequestSendsNothing ==
    LET a == gwIn.args
        invalid ==
            \/ gwIn.route = "/chat" /\ gwIn.message \in {Undefined, ""}
            \/ /\ gwIn.route = "/tools/call"
               /\ \/ gwIn.name # "mcp.invoke"
                  \/ a.type # "object"
                  \/ a.tool = Undefined
                  \/ a.input = "\"MXWO\""
    IN  invalid => /\ gwRes.status = 400
                   /\ gwSent = "none"
                   /\ gwPc = "idle"
                   /\ gwTimer.state = "none"

C37_Witness ==
    /\ gwIn.route = "/tools/call"
    /\ gwIn.name = "mcp.invoke"
    /\ gwIn.args = [type |-> "object", tool |-> "maximo.queryOS", input |-> "\"MXWO\""]
    /\ gwRes = [status |-> 400, error |-> "Invalid mcp.invoke args", body |-> Undefined]
    /\ gwSent = "none"
    /\ gwOut.threw

\* C38: the timer of an outbound call of the gateway is pending only while its
\* fetch is awaited: once mcpInvoke, callOpenAI or callGemini has returned or
\* thrown the timer is cleared, or has fired and caused the exception; a call
\* refused because its URL or key is not configured has no timer.
C38_TimerNeverLeftPending ==
    /\ gwPc = "fetch" => gwTimer = [state |-> "pending", ms |-> 60000]
    /\ gwPc = "idle"
         => /\ gwTimer.state \in {"none", "cleared", "fired"}
            /\ gwTimer.state = "fired" => gwOut.message = "The user aborted a request."
            /\ gwSent # "none" => gwTimer.state \in {"cleared", "fired"}
            /\ gwRes.error \in {"MCP_SERVER_URL is not configured",
                                 "OPENAI_API_KEY is not configured",
                                 "GEMINI_API_KEY is not configured"}
                 => gwTimer.state = "none" /\ gwSent = "none"

C38_Witness ==
    /\ gwPc = "idle"
    /\ gwSent = "gemini"
    /\ gwOut.threw
    /\ gwRes.status = 500
    /\ gwRes.error = Slice(LongBody, 400)
    /\ gwTimer.state = "cleared"


\* the messages of a role among those shown
UiCount(role) == Cardinality({k \in 1..Len(uiMessages) : uiMessages[k].role = role})

\* C39: the busy flag is set whenever a chat request is in flight, and the
\* messages shown are one user message per send and one assistant message
\* per settled request.
C39_BusyWhileInFlight ==
    /\ uiInFlight # <<>> => uiBusy
    /\ UiCount("assistant") = UiCount("user") - Len(uiInFlight)

====
